---- MODULE Spec2Model ----
(***************************************************************************)
(* Model of the Infinitude client (custom_components/infinitude_beyond/    *)
(* infinitude/api.py): the weekly schedule projection of a zone            *)
(* (InfinitudeZone._update_activities) and the connect()/update() refresh  *)
(* cycle of the device client (Infinitude).                                *)
(*                                                                         *)
(* Five specifications share the module:                                   *)
(*   SchedSpec    the schedule projection as a function of a zone's config *)
(*                and of 'now', applied to inputs drawn from bounded sets; *)
(*   Spec         the client: asyncio tasks running connect() and          *)
(*                update(), one step per stretch of code between           *)
(*                suspension points;                                       *)
(*   ViewSpec     the readers of the snapshots, the normalizer and the     *)
(*                differ as functions of bodies drawn from bounded sets;   *)
(*   CommandSpec  one zone or system command on a connected client;        *)
(*   OverlapSpec  a zone command and the coordinator's update() together.  *)
(***************************************************************************)
EXTENDS Integers, Sequences, FiniteSets, TLC

(***************************************************************************)
(* Bounds of the model.                                                    *)
(***************************************************************************)
\* Times of day a period or 'now' can take (0 .. TimesPerDay-1).
TimesPerDay == 3
\* Longest period list of a day entry.
MaxPeriods == 2
\* Last day the date arithmetic can represent (datetime.max, scaled down).
MaxOrdinal == 16
\* Deepest nesting of the JSON trees the normalizer is tried on.
MaxDepth == 2

(***************************************************************************)
(* Values.                                                                 *)
(***************************************************************************)
\* Python's None, and a key that is absent from a mapping.
None == "None"
Missing == "Missing"

\* A field of a period that is absent, and a time string that does not parse
\* as HH:MM with hour 0..23 and minute 0..59.
MissingTime == -1
BadTime == -2

DaysInWeek == 7
Weekdays == 0 .. (DaysInWeek - 1)
Times == 0 .. (TimesPerDay - 1)

\* A timestamp: the day (an ordinal, its weekday is day % 7) and the time of day.
NoneTime == [day |-> -1, tod |-> -1]
DateTime(d, t) == [day |-> d, tod |-> t]
Weekday(dt) == dt.day % DaysInWeek

\* period_dt < dt of two timestamps of the same timezone.
Before(a, b) == a.day < b.day \/ (a.day = b.day /\ a.tod < b.tod)

\* The result of a scan over nothing: the four locals of _update_activities
\* as initialised, no day-advance made, 'program' not yet bound.
NoActivities ==
    [ activity_scheduled |-> None, activity_scheduled_start |-> NoneTime,
      activity_next |-> None, activity_next_start |-> NoneTime,
      advances |-> 0, bound |-> FALSE, exc |-> FALSE ]

(***************************************************************************)
(* InfinitudeZone._update_activities                                       *)
(***************************************************************************)
\* The for loop without its 'break': a later period of the day at or after
\* 'dt' replaces the next activity found before it.
RECURSIVE ScanPeriodsNoBreak(_, _, _, _)
ScanPeriodsNoBreak(periods, i, dt, acc) ==
    IF Len(periods) = 1 THEN [acc EXCEPT !.exc = TRUE]
    ELSE IF i > Len(periods) THEN acc
    ELSE LET period == periods[i]
             period_dt == DateTime(dt.day, period.time)
         IN  IF period.enabled = Missing THEN [acc EXCEPT !.exc = TRUE]
             ELSE IF period.enabled = "off" THEN ScanPeriodsNoBreak(periods, i + 1, dt, acc)
             ELSE IF period.time < 0 THEN [acc EXCEPT !.exc = TRUE]
             ELSE IF period.activity = Missing THEN [acc EXCEPT !.exc = TRUE]
             ELSE IF Before(period_dt, dt)
                  THEN ScanPeriodsNoBreak(periods, i + 1, dt,
                           [acc EXCEPT !.activity_scheduled = period.activity,
                                       !.activity_scheduled_start = period_dt])
                  ELSE ScanPeriodsNoBreak(periods, i + 1, dt,
                           [acc EXCEPT !.activity_next = period.activity,
                                       !.activity_next_start = period_dt])

\* The for loop over program["period"], from index i on.  self._config is a
\* result of _simplify_json, in which a one-element list is its element: a
\* day with a single period holds a mapping, iterating it yields its keys
\* and period["enabled"] on a key raises.
RECURSIVE ScanPeriods(_, _, _, _)
ScanPeriods(periods, i, dt, acc) ==
    IF Len(periods) = 1 THEN [acc EXCEPT !.exc = TRUE]
    ELSE IF i > Len(periods) THEN acc
    ELSE LET period == periods[i]
             period_dt == DateTime(dt.day, period.time)
         IN  IF period.enabled = Missing THEN [acc EXCEPT !.exc = TRUE]
             ELSE IF period.enabled = "off" THEN ScanPeriods(periods, i + 1, dt, acc)
             ELSE IF period.time < 0 THEN [acc EXCEPT !.exc = TRUE]
             ELSE IF period.activity = Missing THEN [acc EXCEPT !.exc = TRUE]
             ELSE IF Before(period_dt, dt)
                  THEN ScanPeriods(periods, i + 1, dt,
                           [acc EXCEPT !.activity_scheduled = period.activity,
                                       !.activity_scheduled_start = period_dt])
                  ELSE [acc EXCEPT !.activity_next = period.activity,
                                   !.activity_next_start = period_dt]

\* The while loop with the day-advance keeping the time of day of 'dt'
\* instead of going to midnight.
RECURSIVE DayWalkKeepsTime(_, _, _)
DayWalkKeepsTime(zone_config, dt, acc) ==
    IF acc.activity_next # None THEN acc
    ELSE IF ~zone_config.has_program THEN [acc EXCEPT !.exc = TRUE]
    ELSE LET days == zone_config.program
             found == { k \in 1 .. Len(days) : days[k].id = Weekday(dt) }
         IN  IF found = {} THEN [acc EXCEPT !.exc = TRUE]
             ELSE LET program == days[CHOOSE k \in found : \A m \in found : k <= m]
                      scanned == ScanPeriods(program.period, 1, dt,
                                             [acc EXCEPT !.bound = TRUE])
                  IN  IF scanned.exc THEN scanned
                      ELSE IF dt.day + 1 > MaxOrdinal
                           THEN [scanned EXCEPT !.exc = TRUE]
                           ELSE DayWalkKeepsTime(zone_config, DateTime(dt.day + 1, dt.tod),
                                                 [scanned EXCEPT !.advances = @ + 1])

\* The while loop: one day per iteration, until a next activity is found or
\* an exception is raised (a failed lookup, a malformed period, a date past
\* datetime.max).
RECURSIVE DayWalk(_, _, _)
DayWalk(zone_config, dt, acc) ==
    IF acc.activity_next # None THEN acc
    ELSE IF ~zone_config.has_program THEN [acc EXCEPT !.exc = TRUE]
    ELSE LET days == zone_config.program
             found == { k \in 1 .. Len(days) : days[k].id = Weekday(dt) }
         IN  IF found = {} THEN [acc EXCEPT !.exc = TRUE]
             ELSE LET program == days[CHOOSE k \in found : \A m \in found : k <= m]
                      scanned == ScanPeriods(program.period, 1, dt,
                                             [acc EXCEPT !.bound = TRUE])
                  IN  IF scanned.exc THEN scanned
                      ELSE IF dt.day + 1 > MaxOrdinal
                           THEN [scanned EXCEPT !.exc = TRUE]
                           ELSE DayWalk(zone_config, DateTime(dt.day + 1, 0),
                                        [scanned EXCEPT !.advances = @ + 1])

\* The handler of the except clause formats the local 'program' into its log
\* message: when the exception came before the first assignment of 'program'
\* the handler itself raises (UnboundLocalError) and the call does not return.
HandlerRaises(walked) == walked.exc /\ ~walked.bound

\* _update_activities on a zone holding the derived fields 'old': the new
\* derived fields, whether the call raised, and the day-advances it made.
UpdateActivities(zone_config, now, old) ==
    LET walked == DayWalk(zone_config, now, NoActivities)
    IN  IF HandlerRaises(walked)
        THEN [ old EXCEPT !.raised = TRUE, !.exc = TRUE, !.advances = walked.advances ]
        ELSE [ activity_scheduled |-> walked.activity_scheduled,
               activity_scheduled_start |-> walked.activity_scheduled_start,
               activity_next |-> walked.activity_next,
               activity_next_start |-> walked.activity_next_start,
               raised |-> FALSE, exc |-> walked.exc, advances |-> walked.advances ]

\* InfinitudeZone.__init__: the derived fields of a new zone.
NewZone ==
    [ activity_scheduled |-> None, activity_scheduled_start |-> NoneTime,
      activity_next |-> None, activity_next_start |-> NoneTime,
      raised |-> FALSE, exc |-> FALSE, advances |-> 0 ]

(***************************************************************************)
(* Inputs of the schedule projection.                                      *)
(***************************************************************************)
\* The activity a period of the inputs names: one per time of day.
ActivityAt(t) == <<"wake", "home", "sleep", "away", "manual">>[(t % 5) + 1]

\* Periods as the device reports them, and periods with a structural error:
\* no 'enabled' key, no 'time' key, a time that does not parse, no 'activity'.
GoodPeriods ==
    { [enabled |-> e, time |-> t, activity |-> ActivityAt(t)] :
        e \in {"on", "off"}, t \in Times }
BadPeriods ==
    { [enabled |-> Missing, time |-> 0, activity |-> ActivityAt(0)],
      [enabled |-> "on", time |-> MissingTime, activity |-> ActivityAt(0)],
      [enabled |-> "on", time |-> BadTime, activity |-> ActivityAt(0)],
      [enabled |-> "on", time |-> 0, activity |-> Missing] }
Periods == GoodPeriods \cup BadPeriods

\* The period lists of a day entry, up to MaxPeriods long.
RECURSIVE SeqsUpTo(_, _)
SeqsUpTo(S, n) ==
    IF n = 0 THEN { <<>> }
    ELSE LET shorter == SeqsUpTo(S, n - 1)
         IN  shorter \cup { Append(q, x) : q \in { r \in shorter : Len(r) = n - 1 }, x \in S }
DayPrograms == SeqsUpTo(Periods, MaxPeriods)

\* The period lists the days other than the special one share.
BasePrograms ==
    { <<>>,
      << [enabled |-> "off", time |-> 0, activity |-> ActivityAt(0)],
         [enabled |-> "off", time |-> 1, activity |-> ActivityAt(1)] >>,
      << [enabled |-> "on", time |-> 0, activity |-> ActivityAt(0)],
         [enabled |-> "on", time |-> 1, activity |-> ActivityAt(1)] >> }

\* A week of day entries: 'special' on weekday s, 'base' on the others, and
\* no entry at all for the m-th weekday (m = 0: every weekday has one).
Week(base, s, special, m) ==
    LET full == [ d \in 1 .. DaysInWeek |->
                    [id |-> d - 1, period |-> IF d - 1 = s THEN special ELSE base] ]
    IN  IF m = 0 THEN full
        ELSE [ k \in 1 .. (DaysInWeek - 1) |-> full[IF k < m THEN k ELSE k + 1] ]

\* The weekdays that take the special period list: the first and the last
\* day entry of the week.
SpecialDays == {0, DaysInWeek - 1}

\* Zone configs: without a program, or with a week of day entries.
NoProgram == [has_program |-> FALSE, program |-> <<>>]
ZoneConfigs ==
    { NoProgram } \cup
    { [has_program |-> TRUE, program |-> Week(base, s, special, m)] :
        base \in BasePrograms, s \in SpecialDays, special \in DayPrograms,
        m \in 0 .. DaysInWeek }

\* 'now' of a call: any weekday of the first week, any time of day.
Nows == { DateTime(d, t) : d \in Weekdays, t \in Times }

(***************************************************************************)
(* The client: snapshots, zones and the tasks that refresh them.           *)
(***************************************************************************)
\* Refresh calls (connect() and update()) one behaviour starts.
MaxRefresh == 3

Endpoints == {"status", "config", "energy", "profile"}
ConnectEndpoints == Endpoints
UpdateEndpoints == {"status", "config", "energy"}

\* The tasks of the event loop that use the client: the polling coordinator
\* (connect(), then update() every interval) and a service call running a
\* zone command that ends in update().
Tasks == {"poll", "cmd"}

\* A snapshot: an empty mapping (__init__), None, or the data of a fetch.
\* src is the refresh call the snapshot was fetched by (0: the constructor);
\* of the data, the status carries localTime and the config its zone list.
EmptySnapshot == [kind |-> "empty", src |-> 0, localTime |-> NoneTime, zone |-> <<>>]

\* The zone lists of the device's config: no zone at all, one zone, or two
\* zones, the first with a period list for every weekday and the second with
\* the same, with no entry for the second weekday, or with no program.
OffOn ==
    << [enabled |-> "off", time |-> 0, activity |-> ActivityAt(0)],
       [enabled |-> "on", time |-> 1, activity |-> ActivityAt(1)] >>
FullWeek == [has_program |-> TRUE, program |-> Week(OffOn, 0, OffOn, 0)]
GapWeek == [has_program |-> TRUE, program |-> Week(OffOn, 0, OffOn, 2)]
ZoneEntry(id, table) ==
    [id |-> id, has_program |-> table.has_program, program |-> table.program]
DeviceConfigs ==
    { <<>>,
      << ZoneEntry("1", FullWeek) >>,
      << ZoneEntry("1", FullWeek), ZoneEntry("2", FullWeek) >>,
      << ZoneEntry("1", FullWeek), ZoneEntry("2", GapWeek) >>,
      << ZoneEntry("1", FullWeek), ZoneEntry("2", NoProgram) >> }

\* The local times the device reports in its status.
LifeNows == { DateTime(0, 0), DateTime(0, TimesPerDay - 1) }

(***************************************************************************)
(* The decoded JSON of the device and the accessors that read it.          *)
(***************************************************************************)
\* A JSON value: null (also what dict.get gives for a missing key), a
\* string, a number, a list or a mapping.
JNull == [t |-> "null", v |-> ""]
JStr(s) == [t |-> "str", v |-> s]
JNum(n) == [t |-> "num", v |-> n]
JList(items) == [t |-> "list", v |-> items]
JDict(d) == [t |-> "dict", v |-> d]
EmptyDict == JDict([key \in {} |-> JNull])

\* dict.get(key): the value, or None.
DictGet(d, key) == IF key \in DOMAIN d.v THEN d.v[key] ELSE JNull

\* Infinitude._simplify_json returning its argument as it is.
SimplifyKeepsLists(data) == data

\* Infinitude._simplify_json unwrapping a single-item list at the top only.
SimplifyTopOnly(data) ==
    IF data.t = "list" /\ Len(data.v) = 1 THEN data.v[1] ELSE data

\* Infinitude._simplify_json: every single-item list, at any depth, is
\* replaced by its item.
RECURSIVE _simplify_json(_)
_simplify_json(data) ==
    IF data.t = "dict"
    THEN JDict([key \in DOMAIN data.v |-> _simplify_json(data.v[key])])
    ELSE IF data.t = "list"
    THEN IF Len(data.v) = 1
         THEN _simplify_json(data.v[1])
         ELSE JList([k \in 1 .. Len(data.v) |-> _simplify_json(data.v[k])])
    ELSE data

\* The decimal digits, in order.
DecimalDigits == "0123456789"

\* str(n) of a natural.
RECURSIVE DecimalText(_)
DecimalText(n) ==
    LET last == SubSeq(DecimalDigits, (n % Len(DecimalDigits)) + 1,
                       (n % Len(DecimalDigits)) + 1)
    IN  IF n < Len(DecimalDigits) THEN last
        ELSE DecimalText(n \div Len(DecimalDigits)) \o last

\* Python's == on two JSON values.
RECURSIVE JEq(_, _)
JEq(a, b) ==
    IF a.t # b.t THEN FALSE
    ELSE IF a.t = "null" THEN TRUE
    ELSE IF a.t = "list"
    THEN Len(a.v) = Len(b.v) /\ \A k \in 1 .. Len(a.v) : JEq(a.v[k], b.v[k])
    ELSE IF a.t = "dict"
    THEN DOMAIN a.v = DOMAIN b.v /\ \A key \in DOMAIN a.v : JEq(a.v[key], b.v[key])
    ELSE a.v = b.v

\* A diff: a mapping from paths to pairs (old value, new value); the result
\* of _compare_data is a diff or None.
NoChanges == [path \in {} |-> <<JNull, JNull>>]
Change(path, old, new) == path :> <<old, new>>
DiffNone == [none |-> TRUE, diff |-> NoChanges]

RECURSIVE _compare_data(_, _, _)
RECURSIVE CompareKeys(_, _, _, _)

\* The loop over the items of the old list alone: what the new list has
\* beyond it is not looked at.
RECURSIVE CompareItemsOldOnly(_, _, _, _, _)
CompareItemsOldOnly(olist, nlist, new_path, i, acc) ==
    LET item_path == new_path \o "[" \o DecimalText(i) \o "]"
        a == olist[i + 1]
        b == nlist[i + 1]
        here == IF i >= Len(nlist) THEN Change(item_path, a, JStr("Missing in new list"))
                ELSE IF a.t = "dict" /\ b.t = "dict" THEN _compare_data(a, b, item_path).diff
                ELSE IF ~JEq(a, b) THEN Change(item_path, a, b)
                ELSE NoChanges
    IN  IF i >= Len(olist) THEN acc
        ELSE CompareItemsOldOnly(olist, nlist, new_path, i + 1, here @@ acc)

\* Infinitude._compare_data: None when a side is None, else the entries of
\* every key of either mapping.
_compare_data(old, new, path) ==
    IF old.t = "null" \/ new.t = "null" THEN DiffNone
    ELSE [none |-> FALSE, diff |-> CompareKeys(old, new, path, DOMAIN old.v \cup DOMAIN new.v)]

\* The two loops over the items of a list pair, from index i on: an item of
\* the old list with no counterpart, a pair of mappings compared in depth
\* under the indexed path, a pair that differs, then the items the new list
\* has beyond the old one.  A later entry replaces an earlier one of the
\* same path.
RECURSIVE CompareItems(_, _, _, _, _)
CompareItems(olist, nlist, new_path, i, acc) ==
    LET item_path == new_path \o "[" \o DecimalText(i) \o "]"
        a == olist[i + 1]
        b == nlist[i + 1]
        here == IF i >= Len(nlist) THEN Change(item_path, a, JStr("Missing in new list"))
                ELSE IF i >= Len(olist)
                THEN Change(item_path, JStr("Missing in old list"), b)
                ELSE IF a.t = "dict" /\ b.t = "dict" THEN _compare_data(a, b, item_path).diff
                ELSE IF ~JEq(a, b) THEN Change(item_path, a, b)
                ELSE NoChanges
    IN  IF i >= Len(olist) /\ i >= Len(nlist) THEN acc
        ELSE CompareItems(olist, nlist, new_path, i + 1, here @@ acc)

\* The loop over the keys still to visit: a key of one side only, a pair of
\* mappings compared in depth, a pair of lists compared item by item, a
\* pair that differs.
CompareKeys(old, new, path, keys) ==
    IF keys = {} THEN NoChanges
    ELSE LET key == CHOOSE k \in keys : TRUE
             new_path == IF path # "" THEN path \o "/" \o key ELSE key
             here ==
                 IF key \notin DOMAIN old.v
                 THEN Change(new_path, JStr("Missing in old dict"), new.v[key])
                 ELSE IF key \notin DOMAIN new.v
                 THEN Change(new_path, old.v[key], JStr("Missing in new dict"))
                 ELSE IF old.v[key].t = "dict" /\ new.v[key].t = "dict"
                 THEN _compare_data(old.v[key], new.v[key], new_path).diff
                 ELSE IF old.v[key].t = "list" /\ new.v[key].t = "list"
                 THEN CompareItems(old.v[key].v, new.v[key].v, new_path, 0, NoChanges)
                 ELSE IF ~JEq(old.v[key], new.v[key])
                 THEN Change(new_path, old.v[key], new.v[key])
                 ELSE NoChanges
         IN  CompareKeys(old, new, path, keys \ {key}) @@ here

\* Python's 'not val': None, the empty string, zero, the empty list and the
\* empty mapping are falsy.
Falsy(val) ==
    \/ val.t = "null"
    \/ val.t = "str" /\ val.v = ""
    \/ val.t = "num" /\ val.v = 0
    \/ val.t = "list" /\ Len(val.v) = 0
    \/ val.t = "dict" /\ DOMAIN val.v = {}

\* The enumerations of const.py that carry device codes, members in order.
TemperatureUnit ==
    << [name |-> "TemperatureUnit.CELSIUS", value |-> "C"],
       [name |-> "TemperatureUnit.FARENHEIT", value |-> "F"] >>
HoldState ==
    << [name |-> "HoldState.OFF", value |-> "off"],
       [name |-> "HoldState.ON", value |-> "on"] >>
FanMode ==
    << [name |-> "FanMode.AUTO", value |-> "off"],
       [name |-> "FanMode.HIGH", value |-> "high"],
       [name |-> "FanMode.MEDIUM", value |-> "med"],
       [name |-> "FanMode.LOW", value |-> "low"] >>
Activity ==
    << [name |-> "Activity.HOME", value |-> "home"],
       [name |-> "Activity.AWAY", value |-> "away"],
       [name |-> "Activity.SLEEP", value |-> "sleep"],
       [name |-> "Activity.WAKE", value |-> "wake"],
       [name |-> "Activity.MANUAL", value |-> "manual"] >>
HVACAction ==
    << [name |-> "HVACAction.ACTIVE_HEAT", value |-> "active_heat"],
       [name |-> "HVACAction.ACTIVE_COOL", value |-> "active_cool"],
       [name |-> "HVACAction.PREP_COOL", value |-> "prep_cool"],
       [name |-> "HVACAction.PREP_HEAT", value |-> "prep_heat"],
       [name |-> "HVACAction.IDLE", value |-> "idle"] >>
HVACMode ==
    << [name |-> "HVACMode.AUTO", value |-> "auto"],
       [name |-> "HVACMode.HEAT", value |-> "heat"],
       [name |-> "HVACMode.COOL", value |-> "cool"],
       [name |-> "HVACMode.OFF", value |-> "off"],
       [name |-> "HVACMode.FAN_ONLY", value |-> "fanonly"] >>
Occupancy ==
    << [name |-> "Occupancy.OCCUPIED", value |-> "occupied"],
       [name |-> "Occupancy.UNOCCUPIED", value |-> "unoccupied"],
       [name |-> "Occupancy.MOTION", value |-> "motion"] >>
HumidifierState ==
    << [name |-> "HumidifierState.ON", value |-> "on"],
       [name |-> "HumidifierState.OFF", value |-> "off"] >>

\* The lookup with the first member as the default for an unknown code.
MemberOrFirst(enum, val) ==
    LET hits == { k \in 1 .. Len(enum) : val.t = "str" /\ enum[k].value = val.v }
    IN  enum[IF hits = {} THEN 1 ELSE CHOOSE k \in hits : \A m \in hits : k <= m].name

\* next((m for m in enum if m.value == val), None): the first member whose
\* code equals val; a value that is no string equals no code.
MemberOf(enum, val) ==
    LET hits == { k \in 1 .. Len(enum) : val.t = "str" /\ enum[k].value = val.v }
    IN  IF hits = {} THEN None
        ELSE enum[CHOOSE k \in hits : \A m \in hits : k <= m].name

\* The pattern of the code-mapped accessors: a falsy raw value gives None,
\* any other the member with that code, or None (after a logged warning).
CodeMapped(d, key, enum) ==
    LET val == DictGet(d, key)
    IN  IF Falsy(val) THEN None ELSE MemberOf(enum, val)

\* The accessors, each on the mapping it reads (the system's or the zone's
\* part of the status or of the config).
temperature_unit(st) == CodeMapped(st, "cfgem", TemperatureUnit)
hvac_mode(cfg) == CodeMapped(cfg, "mode", HVACMode)
humidifier_state(st) == CodeMapped(st, "humid", HumidifierState)
fan_mode(st) == CodeMapped(st, "fan", FanMode)
hvac_action(st) == CodeMapped(st, "zoneconditioning", HVACAction)
hold_state(cfg) == CodeMapped(cfg, "hold", HoldState)
hold_activity(cfg) == CodeMapped(cfg, "holdActivity", Activity)
activity_current(st) == CodeMapped(st, "currentActivity", Activity)
occupancy(st) == CodeMapped(st, "occupancy", Occupancy)

\* The accessors by name, the key each reads and whether it reads the
\* config (the others read the status).
Accessors ==
    { "temperature_unit", "hvac_mode", "humidifier_state", "fan_mode", "hvac_action",
      "hold_state", "hold_activity", "activity_current", "occupancy" }
KeyOf(a) ==
    CASE a = "temperature_unit" -> "cfgem"
      [] a = "hvac_mode" -> "mode"
      [] a = "humidifier_state" -> "humid"
      [] a = "fan_mode" -> "fan"
      [] a = "hvac_action" -> "zoneconditioning"
      [] a = "hold_state" -> "hold"
      [] a = "hold_activity" -> "holdActivity"
      [] a = "activity_current" -> "currentActivity"
      [] a = "occupancy" -> "occupancy"
ReadsConfig(a) == a \in {"hvac_mode", "hold_state", "hold_activity"}
ReadAccessor(a, st, cfg) ==
    CASE a = "temperature_unit" -> temperature_unit(st)
      [] a = "hvac_mode" -> hvac_mode(cfg)
      [] a = "humidifier_state" -> humidifier_state(st)
      [] a = "fan_mode" -> fan_mode(st)
      [] a = "hvac_action" -> hvac_action(st)
      [] a = "hold_state" -> hold_state(cfg)
      [] a = "hold_activity" -> hold_activity(cfg)
      [] a = "activity_current" -> activity_current(st)
      [] a = "occupancy" -> occupancy(st)

(***************************************************************************)
(* Clock strings and timestamps with hours, minutes and seconds.           *)
(***************************************************************************)
\* A datetime of the device's zone: the day, counted from the day of the
\* first local time, and the time of day.  NoStamp stands for None.
Stamp(d, hh, mm, ss) == [day |-> d, hh |-> hh, mm |-> mm, ss |-> ss]
NoStamp == [day |-> -1, hh |-> -1, mm |-> -1, ss |-> -1]
StampBefore(a, b) ==
    \/ a.day < b.day
    \/ a.day = b.day /\ a.hh < b.hh
    \/ a.day = b.day /\ a.hh = b.hh /\ a.mm < b.mm
    \/ a.day = b.day /\ a.hh = b.hh /\ a.mm = b.mm /\ a.ss < b.ss

\* int(text) of a text of decimal digits; -1 stands for its ValueError.
DigitsIn(text) ==
    { i \in 1 .. Len(text) :
        \E d \in 1 .. Len(DecimalDigits) : SubSeq(text, i, i) = SubSeq(DecimalDigits, d, d) }
DigitAt(text, i) ==
    (CHOOSE d \in 1 .. Len(DecimalDigits) : SubSeq(text, i, i) = SubSeq(DecimalDigits, d, d)) - 1
RECURSIVE DecimalValue(_, _)
DecimalValue(text, n) ==
    IF n = 0 THEN 0 ELSE DecimalValue(text, n - 1) * Len(DecimalDigits) + DigitAt(text, n)
ParseInt(text) ==
    IF Len(text) = 0 \/ DigitsIn(text) # 1 .. Len(text) THEN -1
    ELSE DecimalValue(text, Len(text))

\* '%H' and '%M' of strftime: two digits, zero-padded.
TwoDigits(n) ==
    SubSeq(DecimalDigits, (n \div Len(DecimalDigits)) + 1, (n \div Len(DecimalDigits)) + 1)
        \o SubSeq(DecimalDigits, (n % Len(DecimalDigits)) + 1, (n % Len(DecimalDigits)) + 1)
\* until.strftime("%H:%M")
ClockText(st) == TwoDigits(st.hh) \o ":" \o TwoDigits(st.mm)

\* hold_until with the until time kept on today's date.
HoldUntilToday(zone_st, tnow) ==
    LET val == DictGet(zone_st, "otmr")
        colons == { i \in 1 .. Len(val.v) : SubSeq(val.v, i, i) = ":" }
        c == CHOOSE i \in colons : TRUE
        hh == ParseInt(SubSeq(val.v, 1, c - 1))
        mm == ParseInt(SubSeq(val.v, c + 1, Len(val.v)))
    IN  IF val.t # "str" THEN [exc |-> None, value |-> NoStamp]
        ELSE IF Cardinality(colons) # 1 THEN [exc |-> "ValueError", value |-> NoStamp]
        ELSE IF hh \notin 0 .. 23 \/ mm \notin 0 .. 59
        THEN [exc |-> "ValueError", value |-> NoStamp]
        ELSE [exc |-> None, value |-> Stamp(tnow.day, hh, mm, 0)]

\* InfinitudeZone.hold_until: None unless otmr is a string; the string is
\* split at ':' into exactly two numbers (or ValueError), which with today's
\* date make a time, and the time moves to tomorrow when it is before now.
hold_until(zone_st, tnow) ==
    LET val == DictGet(zone_st, "otmr")
        colons == { i \in 1 .. Len(val.v) : SubSeq(val.v, i, i) = ":" }
        c == CHOOSE i \in colons : TRUE
        hh == ParseInt(SubSeq(val.v, 1, c - 1))
        mm == ParseInt(SubSeq(val.v, c + 1, Len(val.v)))
        until_dt == Stamp(tnow.day, hh, mm, 0)
    IN  IF val.t # "str" THEN [exc |-> None, value |-> NoStamp]
        ELSE IF Cardinality(colons) # 1 THEN [exc |-> "ValueError", value |-> NoStamp]
        ELSE IF hh \notin 0 .. 23 \/ mm \notin 0 .. 59
        THEN [exc |-> "ValueError", value |-> NoStamp]
        ELSE IF StampBefore(until_dt, tnow)
        THEN [exc |-> None, value |-> [until_dt EXCEPT !.day = @ + 1]]
        ELSE [exc |-> None, value |-> until_dt]

\* hold_mode that looks at the until time whatever the hold state.
HoldModeByUntilOnly(zone_cfg, zone_st, tnow) ==
    LET u == hold_until(zone_st, tnow)
    IN  [ exc |-> u.exc,
          value |-> IF u.exc # None THEN None
                    ELSE IF u.value # NoStamp THEN "HoldMode.UNTIL" ELSE "HoldMode.OFF" ]

\* InfinitudeZone.hold_mode: the until time is read only when the hold
\* state is the member ON.
hold_mode(zone_cfg, zone_st, tnow) ==
    IF hold_state(zone_cfg) = "HoldState.ON"
    THEN LET u == hold_until(zone_st, tnow)
         IN  [ exc |-> u.exc,
               value |-> IF u.exc # None THEN None
                         ELSE IF u.value # NoStamp THEN "HoldMode.UNTIL"
                         ELSE "HoldMode.INDEFINITE" ]
    ELSE [exc |-> None, value |-> "HoldMode.OFF"]

\* Python's round(n / d) for naturals n and d: to the nearest integer, a tie
\* to the even one.
PyRound(n, d) ==
    LET q == n \div d
        r == n % d
    IN  IF 2 * r < d THEN q
        ELSE IF 2 * r > d THEN q + 1
        ELSE IF q % 2 = 0 THEN q ELSE q + 1

\* datetime + timedelta(minutes=delta): the hour and the day carry.
AddMinutes(st, delta) ==
    LET total == st.hh * 60 + st.mm + delta
    IN  [ day |-> st.day + (total \div (24 * 60)),
          hh |-> (total % (24 * 60)) \div 60,
          mm |-> total % 60,
          ss |-> st.ss ]

\* The rounding of set_hold_mode with the minute replaced and no carry.
RoundReplacesMinute(until) ==
    [until EXCEPT !.mm = (PyRound(until.mm, 15) * 15) % 60]

\* set_hold_mode, "Round until to the nearest 15-min interval".
RoundUntil(until) ==
    LET until_min == until.mm
        nearest_fifteen == PyRound(until_min, 15) * 15
    IN  AddMinutes(until, nearest_fifteen - until_min)

(***************************************************************************)
(* The local time and time zone of the system.                             *)
(***************************************************************************)
\* re.match of text against '^(\d{4}-\d{2}-\d{2}T\d{2}:\d{2}:\d{2})
\* ([+-]\d{2}:\d{2})?$': lastindex (1 without the offset group, 2 with it),
\* or 0 when there is no match.  In a template, d is a digit and s a sign.
FitsTemplate(text, template) ==
    /\ Len(text) = Len(template)
    /\ \A i \in 1 .. Len(template) :
         LET c == SubSeq(text, i, i)
             p == SubSeq(template, i, i)
         IN  IF p = "d" THEN i \in DigitsIn(text)
             ELSE IF p = "s" THEN c \in {"+", "-"}
             ELSE c = p
LocalTimeMatch(text) ==
    IF FitsTemplate(text, "dddd-dd-ddTdd:dd:dd") THEN 1
    ELSE IF FitsTemplate(text, "dddd-dd-ddTdd:dd:ddsdd:dd") THEN 2
    ELSE 0

\* The offset with the sign applied to the hours and to the minutes.
OffsetSignsBoth(offset_str) ==
    LET magnitude == ParseInt(SubSeq(offset_str, 2, 3)) * 60 + ParseInt(SubSeq(offset_str, 5, 6))
    IN  IF SubSeq(offset_str, 1, 1) = "-" THEN 0 - magnitude ELSE magnitude

\* hours, minutes = map(int, offset_str.split(":")) and timedelta(hours=hours,
\* minutes=minutes), in minutes: int() reads the sign with the hours only.
OffsetMinutes(offset_str) ==
    LET hours == IF SubSeq(offset_str, 1, 1) = "-"
                 THEN 0 - ParseInt(SubSeq(offset_str, 2, 3))
                 ELSE ParseInt(SubSeq(offset_str, 2, 3))
        minutes == ParseInt(SubSeq(offset_str, 5, 6))
    IN  hours * 60 + minutes

\* InfinitudeSystem.local_timezone: match() raises TypeError on a localTime
\* that is no string, 'matches.lastindex' raises AttributeError when there
\* is no match, timezone() accepts offsets strictly within a day, and a
\* localTime without offset gives the zone of the host.
local_timezone(st) ==
    LET val == DictGet(st, "localTime")
        offset == OffsetMinutes(SubSeq(val.v, 20, 25))
    IN  IF val.t # "str" THEN [exc |-> "TypeError", kind |-> "none", minutes |-> 0]
        ELSE IF LocalTimeMatch(val.v) = 0
        THEN [exc |-> "AttributeError", kind |-> "none", minutes |-> 0]
        ELSE IF LocalTimeMatch(val.v) = 1 THEN [exc |-> None, kind |-> "host", minutes |-> 0]
        ELSE IF offset <= 0 - 24 * 60 \/ offset >= 24 * 60
        THEN [exc |-> "ValueError", kind |-> "none", minutes |-> 0]
        ELSE [exc |-> None, kind |-> "fixed", minutes |-> offset]

\* datetime.strptime(text, "%Y-%m-%dT%H:%M:%S") of a text that matched: the
\* fields, or valid FALSE for its ValueError.
StrpTime(text) ==
    LET year == ParseInt(SubSeq(text, 1, 4))
        month == ParseInt(SubSeq(text, 6, 7))
        day == ParseInt(SubSeq(text, 9, 10))
        hh == ParseInt(SubSeq(text, 12, 13))
        mm == ParseInt(SubSeq(text, 15, 16))
        ss == ParseInt(SubSeq(text, 18, 19))
        leap == year % 4 = 0 /\ (year % 100 # 0 \/ year % 400 = 0)
        days == IF month = 2 THEN (IF leap THEN 29 ELSE 28)
                ELSE IF month \in {4, 6, 9, 11} THEN 30 ELSE 31
    IN  [ valid |-> /\ year >= 1 /\ month \in 1 .. 12 /\ day \in 1 .. days
                    /\ hh <= 23 /\ mm <= 59 /\ ss <= 61,
          year |-> year, month |-> month, day |-> day, hh |-> hh, mm |-> mm, ss |-> ss ]
\* datetime.now() of the host: no field of it is modelled.
HostNow == [valid |-> TRUE, year |-> 0, month |-> 0, day |-> 0, hh |-> 0, mm |-> 0, ss |-> 0]

\* InfinitudeSystem.local_time: only the TypeError of match() is caught and
\* replaced by the host's now(); the AttributeError of 'matches.group' on no
\* match and the ValueError of strptime propagate, and so does whatever
\* local_timezone raises, which is read outside the try.
local_time(st) ==
    LET val == DictGet(st, "localTime")
        tz == local_timezone(st)
        naive == IF val.t # "str" THEN HostNow ELSE StrpTime(SubSeq(val.v, 1, 19))
        source == IF val.t # "str" THEN "host" ELSE "device"
    IN  IF val.t = "str" /\ LocalTimeMatch(val.v) = 0
        THEN [exc |-> "AttributeError", source |-> "none", naive |-> HostNow, tz |-> tz]
        ELSE IF ~naive.valid
        THEN [exc |-> "ValueError", source |-> "none", naive |-> HostNow, tz |-> tz]
        ELSE IF tz.exc # None
        THEN [exc |-> tz.exc, source |-> "none", naive |-> HostNow, tz |-> tz]
        ELSE [exc |-> None, source |-> source, naive |-> naive, tz |-> tz]

(***************************************************************************)
(* The bodies, local times and until times the readers are tried on.       *)
(***************************************************************************)
\* The codes of an enumeration, and every code of any of them.
CodesOf(enum) == { enum[k].value : k \in 1 .. Len(enum) }
AllCodes ==
    UNION { CodesOf(enum) : enum \in { TemperatureUnit, HoldState, FanMode, Activity,
                                        HVACAction, HVACMode, Occupancy, HumidifierState } }

\* What the device may hold under a key: a code of any enumeration, alone or
\* in a list of one, an unknown code, a value that is no text, a falsy value.
RawValues ==
    { JStr(c) : c \in AllCodes \cup {"vacation2"} }
        \cup { JList(<<JStr(c)>>) : c \in AllCodes }
        \cup { JNum(1), JList(<<JStr("on"), JStr("off")>>) }
        \cup { JNull, JStr(""), JNum(0), JList(<<>>), EmptyDict }

\* A mapping with the one key, or without it.
Bodies(key, values) == { JDict(key :> val) : val \in values } \cup { EmptyDict }

\* A view before anything is read from it.
NoView ==
    [ kind |-> "none", stage |-> "raw", accessor |-> "none",
      status_raw |-> EmptyDict, config_raw |-> EmptyDict,
      status |-> EmptyDict, config |-> EmptyDict,
      tnow |-> NoStamp, until |-> NoStamp,
      member |-> None, hold_until |-> NoStamp, hold_mode |-> None, exc |-> None,
      until_str |-> "",
      local_time |-> [exc |-> None, source |-> "none", naive |-> HostNow,
                      tz |-> [exc |-> None, kind |-> "none", minutes |-> 0]],
      again |-> JNull, changes |-> DiffNone, reverse |-> DiffNone ]
\* The accessors: each on a body with its key, holding any raw value.
CodeViews ==
    UNION { { [NoView EXCEPT !.kind = "code", !.accessor = a,
                             !.status_raw = IF ReadsConfig(a) THEN EmptyDict ELSE b,
                             !.config_raw = IF ReadsConfig(a) THEN b ELSE EmptyDict] :
                b \in Bodies(KeyOf(a), RawValues) } : a \in Accessors }
\* The hold readers: the zone's 'hold' and 'otmr' as the device may hold
\* them, at local times before, at and after the until times.
HoldViews ==
    LET clocks == { Stamp(0, 0, 0, 0), Stamp(0, 14, 30, 0), Stamp(0, 23, 59, 0) }
        otmrs == { JStr(ClockText(c)) : c \in clocks }
                     \cup { JList(<<JStr(ClockText(c))>>) : c \in clocks }
                     \cup { JNull, EmptyDict }
        holds == { JStr("on"), JStr("off"), JStr("maybe"), JList(<<JStr("on")>>),
                   JStr(""), EmptyDict }
        nows == { Stamp(0, 0, 0, 0), Stamp(0, 14, 29, 59), Stamp(0, 14, 30, 0),
                  Stamp(0, 14, 30, 20), Stamp(0, 23, 59, 59) }
    IN  { [NoView EXCEPT !.kind = "hold", !.config_raw = c, !.status_raw = s, !.tnow = n] :
            c \in Bodies("hold", holds), s \in Bodies("otmr", otmrs), n \in nows }
\* The local time readers: a status without localTime, with a localTime
\* that is no text, with and without offset, malformed, of no calendar day.
TimeViews ==
    LET texts == { "2024-01-15T14:30:00", "2024-01-15T14:30:00+05:30",
                   "2024-01-15T14:30:00-05:30", "2024-01-15T14:30:00-05:00",
                   "2024-01-15T14:30:00+00:00", "2024-01-15T14:30:00-00:30",
                   "2024-01-15T14:30:00+24:00", "2024-02-30T10:00:00",
                   "2024-01-15 14:30:00", "14:30", "" }
        values == { JStr(s) : s \in texts } \cup { JList(<<JStr(s)>>) : s \in texts }
                      \cup { JNull, EmptyDict }
    IN  { [NoView EXCEPT !.kind = "time", !.status_raw = s] : s \in Bodies("localTime", values) }
\* The JSON trees of a depth: two scalars, the lists of up to two trees and
\* the mappings of no key or one, of trees one level less deep.
RECURSIVE JsonTrees(_)
JsonTrees(depth) ==
    LET scalars == { JStr("a"), JNum(1) }
        inner == JsonTrees(depth - 1)
    IN  IF depth = 0 THEN scalars
        ELSE scalars
               \cup { JList(<<>>) } \cup { JList(<<x>>) : x \in inner }
               \cup { JList(<<x, y>>) : x \in inner, y \in inner }
               \cup { EmptyDict } \cup { JDict("k" :> x) : x \in inner }
\* The normalizer: every tree of the depth as a body.
TreeViews == { [NoView EXCEPT !.kind = "tree", !.status_raw = x] : x \in JsonTrees(MaxDepth) }

\* The differ: pairs of snapshots, None or mappings of up to two keys whose
\* values are scalars, lists of scalars and of mappings, and mappings.
DiffViews ==
    LET x == JStr("x")
        y == JStr("y")
        avalues == { x, y, JNull, EmptyDict, JList(<<>>),
                     JList(<<x, y>>), JList(<<y, y>>), JList(<<x, y, x>>),
                     JList(<<JDict("k" :> x), y>>), JList(<<JDict("k" :> y), y>>),
                     JList(<<JDict("k" :> y), y, JDict("k" :> x)>>),
                     JDict("k" :> x), JDict("k" :> y),
                     JDict("k" :> JList(<<x, y>>)), JDict("k" :> JList(<<>>)) }
        bvalues == { x, JList(<<x, y>>) }
        snapshots == { JNull, EmptyDict }
                        \cup { JDict("a" :> a) : a \in avalues }
                        \cup { JDict("b" :> b) : b \in bvalues }
                        \cup { JDict(("a" :> a) @@ ("b" :> b)) : a \in avalues, b \in bvalues }
    IN  { [NoView EXCEPT !.kind = "diff", !.status_raw = old, !.config_raw = new] :
            old \in snapshots, new \in snapshots }

\* The rounding: every minute of a day as the until time.
RoundViews ==
    { [NoView EXCEPT !.kind = "round", !.until = Stamp(0, hh, mm, 0)] :
        hh \in 0 .. 23, mm \in 0 .. 59 }

(***************************************************************************)
(* The zone commands: set_temperature, set_fan_mode, set_hold_mode.        *)
(***************************************************************************)
\* An optional number (an argument, a setpoint read from the status): None,
\* or a temperature in tenths of a degree.
Nothing == [some |-> FALSE, v |-> 0]
Some(x) == [some |-> TRUE, v |-> x]
\* Python's 'if x:' on an optional number: None and zero are falsy.
Truthy(x) == x.some /\ x.v # 0

\* f"{x:.1f}" of a temperature.
OneDecimal(x) == DecimalText(x \div 10) \o "." \o DecimalText(x % 10)

\* member.value
ValueOf(enum, name) == enum[CHOOSE k \in 1 .. Len(enum) : enum[k].name = name].value

\* set_temperature, the resolution of one setpoint: the own argument if it
\* is truthy, else the shared temperature if it is truthy, else the current
\* setpoint.
Resolve(current, own, temperature) ==
    IF Truthy(own) THEN own
    ELSE IF Truthy(temperature) THEN temperature
    ELSE current

\* A request, or the start of a refresh, as the log keeps it.
Post(endpoint, data) == [kind |-> "POST", endpoint |-> endpoint, data |-> data, id |-> 0]
RefreshBegin(id) ==
    [kind |-> "refresh", endpoint |-> "", data |-> [key \in {} |-> ""], id |-> id]

\* What a command does up to its first suspension: the exception it raises,
\* or the request it sends.
Raises(exc) == [exc |-> exc, request |-> RefreshBegin(0)]
Sends(request) == [exc |-> None, request |-> request]

\* set_temperature that writes the setpoints whatever their order.
SetTemperatureUnchecked(z, id, heat, cool) ==
    IF ~heat.some \/ ~cool.some THEN Raises("TypeError")
    ELSE IF z.fan = None THEN Raises("AttributeError")
    ELSE Sends(Post("/api/" \o id \o "/activity/" \o ValueOf(Activity, "Activity.MANUAL"),
                    ("htsp" :> OneDecimal(heat.v)) @@ ("clsp" :> OneDecimal(cool.v))
                        @@ ("fan" :> ValueOf(FanMode, z.fan))))

\* set_temperature from the comparison on: 'heat > cool' raises TypeError
\* on None and otherwise decides the ValueError; the fan code is that of
\* the zone's fan_mode, which may be None.
SetTemperatureRequest(z, id, heat, cool) ==
    IF ~heat.some \/ ~cool.some THEN Raises("TypeError")
    ELSE IF heat.v > cool.v THEN Raises("ValueError")
    ELSE IF z.fan = None THEN Raises("AttributeError")
    ELSE Sends(Post("/api/" \o id \o "/activity/" \o ValueOf(Activity, "Activity.MANUAL"),
                    ("htsp" :> OneDecimal(heat.v)) @@ ("clsp" :> OneDecimal(cool.v))
                        @@ ("fan" :> ValueOf(FanMode, z.fan))))

\* set_fan_mode up to its _post: the setpoints are the zone's current ones,
\* and formatting None raises TypeError.
SetFanModeRequest(z, id, fan) ==
    IF ~z.heat.some \/ ~z.cool.some THEN Raises("TypeError")
    ELSE Sends(Post("/api/" \o id \o "/activity/" \o ValueOf(Activity, "Activity.MANUAL"),
                    ("fan" :> ValueOf(FanMode, fan)) @@ ("htsp" :> OneDecimal(z.heat.v))
                        @@ ("clsp" :> OneDecimal(z.cool.v))))

\* set_hold_mode with the until time sent as it is given.
HoldRequestUnrounded(z, id, mode_arg, activity_arg, until_arg) ==
    LET mode == IF mode_arg = None THEN "HoldMode.UNTIL" ELSE mode_arg
        activity == IF activity_arg = None THEN z.activity ELSE activity_arg
        until == IF until_arg = NoStamp THEN z.next_start ELSE until_arg
        until_str == ClockText(until)
        endpoint == "/api/" \o id \o "/hold"
    IN  IF until = NoStamp THEN Raises("AttributeError")
        ELSE IF mode = "HoldMode.OFF"
        THEN Sends(Post(endpoint, ("hold" :> ValueOf(HoldState, "HoldState.OFF"))
                                      @@ ("activity" :> "") @@ ("until" :> "")))
        ELSE IF activity = None THEN Raises("AttributeError")
        ELSE Sends(Post(endpoint, ("hold" :> ValueOf(HoldState, "HoldState.ON"))
                                      @@ ("activity" :> ValueOf(Activity, activity))
                                      @@ ("until" :> until_str)))

\* set_hold_mode up to its _post: the defaults, the rounding of the until
\* time (None has no minute: AttributeError, whatever the mode), and the
\* payload of the mode (None has no value: AttributeError).
HoldRequest(z, id, mode_arg, activity_arg, until_arg) ==
    LET mode == IF mode_arg = None THEN "HoldMode.UNTIL" ELSE mode_arg
        activity == IF activity_arg = None THEN z.activity ELSE activity_arg
        until == IF until_arg = NoStamp THEN z.next_start ELSE until_arg
        until_str == ClockText(RoundUntil(until))
        endpoint == "/api/" \o id \o "/hold"
    IN  IF until = NoStamp THEN Raises("AttributeError")
        ELSE IF mode = "HoldMode.OFF"
        THEN Sends(Post(endpoint, ("hold" :> ValueOf(HoldState, "HoldState.OFF"))
                                      @@ ("activity" :> "") @@ ("until" :> "")))
        ELSE IF activity = None THEN Raises("AttributeError")
        ELSE Sends(Post(endpoint, ("hold" :> ValueOf(HoldState, "HoldState.ON"))
                                      @@ ("activity" :> ValueOf(Activity, activity))
                                      @@ ("until" :> IF mode = "HoldMode.INDEFINITE"
                                                     THEN "forever" ELSE until_str)))

\* InfinitudeSystem.set_hvac_mode up to its _post: the code of the mode, to
\* the config endpoint.
SetHvacModeRequest(mode) ==
    Sends(Post("/api/config", "mode" :> ValueOf(HVACMode, mode)))

\* Infinitude._post: the decoded body, or None after a ClientError, which it
\* logs.
_post(ok) == IF ok THEN "json" ELSE None

\* No command under way.
NoCmd ==
    [ name |-> "none", pc |-> "new", outcome |-> "none", id |-> "1",
      zone |-> [heat |-> Nothing, cool |-> Nothing, fan |-> None,
                activity |-> None, next_start |-> NoStamp],
      temperature |-> Nothing, temperature_heat |-> Nothing, temperature_cool |-> Nothing,
      fan_mode |-> None, mode |-> None, activity |-> None, until |-> NoStamp,
      heat |-> Nothing, cool |-> Nothing, hvac_mode |-> None, activity_resp |-> "none" ]
\* The calls: on zones with and without setpoints, fan mode, current
\* activity and next-activity start, with every argument given or not.
Commands ==
    LET ZoneStates ==
            [ heat : {Some(700)}, cool : {Some(710)}, fan : {"FanMode.HIGH"},
              activity : {"Activity.HOME", None},
              next_start : {NoStamp, Stamp(0, 17, 53, 0)} ]
                \cup [ heat : {Nothing, Some(700)}, cool : {Nothing, Some(710)},
                       fan : {None, "FanMode.HIGH"},
                       activity : {"Activity.HOME"}, next_start : {Stamp(0, 17, 53, 0)} ]
        TemperatureArgs == {Nothing, Some(0), Some(720)}
    IN  { [NoCmd EXCEPT !.name = "set_temperature", !.zone = z, !.temperature = t,
                        !.temperature_heat = th, !.temperature_cool = tc] :
            z \in ZoneStates, t \in TemperatureArgs, th \in TemperatureArgs,
            tc \in TemperatureArgs }
          \cup { [NoCmd EXCEPT !.name = "set_fan_mode", !.zone = z, !.fan_mode = f] :
                   z \in ZoneStates, f \in {"FanMode.AUTO", "FanMode.LOW"} }
          \cup { [NoCmd EXCEPT !.name = "set_hold_mode", !.zone = z, !.mode = mo,
                               !.activity = a, !.until = u] :
                   z \in ZoneStates,
                   mo \in {None, "HoldMode.OFF", "HoldMode.INDEFINITE", "HoldMode.UNTIL"},
                   a \in {None, "Activity.MANUAL"},
                   u \in {NoStamp, Stamp(0, 23, 53, 0)} }
          \cup { [NoCmd EXCEPT !.name = "set_hvac_mode", !.zone = z, !.hvac_mode = h] :
                   z \in ZoneStates, h \in { HVACMode[k].name : k \in 1 .. Len(HVACMode) } }

VARIABLES
    zone_config,    \* SchedSpec: the config of the zone under projection
    now,            \* SchedSpec: system.local_time of the call
    zone,           \* SchedSpec: the zone's derived fields and the call's outcome
    device,         \* the zone list the device serves in its config
    status,         \* Infinitude._status
    config,         \* Infinitude._config
    energy,         \* Infinitude._energy
    profile,        \* Infinitude._profile
    zones,          \* Infinitude.zones, in insertion order
    tasks,          \* per task: where it is suspended, and its gather()
    result,         \* per task: how its last call ended
    refreshes,      \* refresh calls started so far
    view,           \* ViewSpec: a body of the device and what is read from it
    cmd,            \* CommandSpec: the zone command under way
    netlog          \* CommandSpec: the requests sent and the refreshes, in order

schedVars == <<zone_config, now, zone>>
clientVars == <<device, status, config, energy, profile, zones, tasks, result, refreshes>>
viewVars == <<view>>
cmdVars == <<cmd, netlog>>
vars == <<zone_config, now, zone, device, status, config, energy, profile, zones,
          tasks, result, refreshes, view, cmd, netlog>>

\* A task that is in no call: pc is where it stands, and of its last call
\* it keeps whether the timeout cancelled a fetch that was still running.
Resting(pc, cancelled) ==
    [ pc |-> pc, call |-> "none", id |-> 0,
      fetch |-> [e \in Endpoints |-> "unused"], cancelled |-> cancelled ]

\* Infinitude.__init__: empty snapshots, and no call made yet.
ClientInit ==
    /\ status = EmptySnapshot
    /\ config = EmptySnapshot
    /\ energy = EmptySnapshot
    /\ profile = EmptySnapshot
    /\ zones = <<>>
    /\ tasks = [t \in Tasks |-> Resting(IF t = "poll" THEN "new" ELSE "idle", FALSE)]
    /\ result = [t \in Tasks |-> "none"]
    /\ refreshes = 0

(***************************************************************************)
(* SchedSpec: the schedule projection on its own.                          *)
(***************************************************************************)
SchedInit ==
    /\ zone_config \in ZoneConfigs
    /\ now = NoneTime
    /\ zone = NewZone
    /\ device = <<>>
    /\ ClientInit
    /\ view = NoView
    /\ cmd = NoCmd
    /\ netlog = <<>>

\* The call of _update_activities on the new zone, at any 'now'.
CallUpdateActivities ==
    \E n \in Nows :
        /\ now = NoneTime
        /\ now' = n
        /\ zone' = UpdateActivities(zone_config, n, zone)
        /\ UNCHANGED zone_config
        /\ UNCHANGED <<clientVars, viewVars, cmdVars>>

SchedNext == CallUpdateActivities
SchedSpec == SchedInit /\ [][SchedNext]_vars

(***************************************************************************)
(* Transport and fetches.                                                  *)
(***************************************************************************)
\* Infinitude._get: the decoded body, or None after a ClientError (a network
\* error, a non-success status), which it logs.
Get(ok) == IF ok THEN "json" ELSE None

\* _fetch_status and _fetch_energy simplify what _get returned, None
\* included; _fetch_config and _fetch_profile call resp.get() on it, which
\* raises AttributeError on None.
FetchOutcome(e, resp) ==
    IF resp # None THEN "ok"
    ELSE IF e \in {"config", "profile"} THEN "raised"
    ELSE "None"

\* The snapshot a finished fetch hands to gather(): the simplified body, or
\* None.  n is the localTime of a status body.
Fetched(e, t, n) ==
    IF tasks[t].fetch[e] = "ok"
    THEN [ kind |-> "data", src |-> tasks[t].id,
           localTime |-> IF e = "status" THEN n ELSE NoneTime,
           zone |-> IF e = "config" THEN device ELSE <<>> ]
    ELSE [ kind |-> None, src |-> tasks[t].id, localTime |-> NoneTime, zone |-> <<>> ]

(***************************************************************************)
(* The zones of the client.                                                *)
(***************************************************************************)
\* InfinitudeZone._config: the entry of the zone in the config's zone list,
\* or an empty mapping, which has no program.
ZoneConfigOf(cfg, id) ==
    LET found == { k \in 1 .. Len(cfg.zone) : cfg.zone[k].id = id }
    IN  IF found = {} THEN NoProgram
        ELSE LET z == cfg.zone[CHOOSE k \in found : \A m \in found : k <= m]
             IN  [has_program |-> z.has_program, program |-> z.program]

\* InfinitudeSystem.local_time, as _update_activities reads it first: the
\* exception it raises, or None.  self._status.get fails on a status that is
\* None; a status without localTime fails in local_timezone.
LocalTimeError(st) ==
    IF st.kind = None THEN "AttributeError"
    ELSE IF st.localTime = NoneTime THEN "TypeError"
    ELSE None

\* _update_activities on the zones zs[i..], in order, under the status st and
\* the config cfg: the zones afterwards and the exception that ended the
\* loop, if any.
RECURSIVE ProjectZones(_, _, _, _)
ProjectZones(zs, i, st, cfg) ==
    IF i > Len(zs) THEN [zones |-> zs, error |-> None]
    ELSE IF LocalTimeError(st) # None THEN [zones |-> zs, error |-> LocalTimeError(st)]
    ELSE LET z == UpdateActivities(ZoneConfigOf(cfg, zs[i].id), st.localTime, zs[i].fields)
             zs2 == [zs EXCEPT ![i].fields = z]
         IN  IF z.raised THEN [zones |-> zs2, error |-> "UnboundLocalError"]
             ELSE ProjectZones(zs2, i + 1, st, cfg)

\* The zone list of a fetched config after _simplify_json: a list of one
\* zone has been replaced by the zone itself, a mapping.
ZoneListCollapsed(cfg) == Len(cfg.zone) = 1

\* The loop at the end of connect(): a new zone per entry of the config's
\* zone list, each projected as soon as it is made.  Over a zone list that
\* collapsed to one mapping the loop runs over the keys of the zone, and
\* 'zone.get' on the first of them, a string, raises AttributeError.
RECURSIVE ConnectZones(_, _, _, _)
ConnectZones(zs, i, st, cfg) ==
    IF i > Len(cfg.zone) THEN [zones |-> zs, error |-> None]
    ELSE IF ZoneListCollapsed(cfg) THEN [zones |-> zs, error |-> "AttributeError"]
    ELSE LET made == Append(zs, [id |-> cfg.zone[i].id, fields |-> NewZone])
         IN  IF LocalTimeError(st) # None
             THEN [zones |-> made, error |-> LocalTimeError(st)]
             ELSE LET z == UpdateActivities(ZoneConfigOf(cfg, cfg.zone[i].id),
                                            st.localTime, NewZone)
                      zs2 == [made EXCEPT ![Len(made)].fields = z]
                  IN  IF z.raised THEN [zones |-> zs2, error |-> "UnboundLocalError"]
                      ELSE ConnectZones(zs2, i + 1, st, cfg)

(***************************************************************************)
(* connect() and update(), one action per stretch between suspensions.     *)
(***************************************************************************)
EndpointsOf(call) == IF call = "connect" THEN ConnectEndpoints ELSE UpdateEndpoints

\* connect() has returned: the platform calls update() and the commands only
\* then.  A connect() that raised ends the setup.
Connected == tasks["poll"].pc = "idle" \/ tasks["poll"].call = "update"

\* A call suspended in 'await asyncio.gather(...)' under asyncio.timeout.
Gathering(call) ==
    [ pc |-> "gather", call |-> call, id |-> refreshes + 1,
      fetch |-> [e \in Endpoints |-> IF e \in EndpointsOf(call) THEN "pending" ELSE "unused"],
      cancelled |-> FALSE ]

\* Where the end of a call leaves its task.
Finished(t, outcome) ==
    Resting(IF tasks[t].call = "connect" /\ outcome # "ok" THEN "failed" ELSE "idle",
            \E e \in Endpoints : tasks[t].fetch[e] = "pending")

\* connect() up to its gather().
Connect(t) ==
    /\ t = "poll"
    /\ tasks[t].pc = "new"
    /\ refreshes < MaxRefresh
    /\ tasks' = [tasks EXCEPT ![t] = Gathering("connect")]
    /\ refreshes' = refreshes + 1
    /\ UNCHANGED <<device, status, config, energy, profile, zones, result>>
    /\ UNCHANGED <<schedVars, viewVars, cmdVars>>

\* update() up to its gather(), called by the coordinator.
Update(t) ==
    /\ t = "poll"
    /\ tasks[t].pc = "idle"
    /\ refreshes < MaxRefresh
    /\ tasks' = [tasks EXCEPT ![t] = Gathering("update")]
    /\ refreshes' = refreshes + 1
    /\ UNCHANGED <<device, status, config, energy, profile, zones, result>>
    /\ UNCHANGED <<schedVars, viewVars, cmdVars>>

\* set_hold_mode(mode, activity, until) up to 'await self._infinitude._post'.
SetHoldMode(t) ==
    /\ t = "cmd"
    /\ Connected
    /\ tasks[t].pc = "idle"
    /\ refreshes < MaxRefresh
    /\ tasks' = [tasks EXCEPT ![t] = Resting("post", FALSE)]
    /\ UNCHANGED <<device, status, config, energy, profile, zones, result, refreshes>>
    /\ UNCHANGED <<schedVars, viewVars, cmdVars>>

\* _post returns (its ClientError is logged) and set_hold_mode goes on into
\* update(), up to its gather().
PostReturn(t) ==
    /\ tasks[t].pc = "post"
    /\ tasks' = [tasks EXCEPT ![t] = Gathering("update")]
    /\ refreshes' = refreshes + 1
    /\ UNCHANGED <<device, status, config, energy, profile, zones, result>>
    /\ UNCHANGED <<schedVars, viewVars, cmdVars>>

\* One of the fetches of a gather() ends: _get returned the body or None.
FetchReturn(t, e) ==
    /\ tasks[t].pc = "gather"
    /\ tasks[t].fetch[e] = "pending"
    /\ \E ok \in BOOLEAN :
         tasks' = [tasks EXCEPT ![t].fetch[e] = FetchOutcome(e, Get(ok))]
    /\ UNCHANGED <<device, status, config, energy, profile, zones, result, refreshes>>
    /\ UNCHANGED <<schedVars, viewVars, cmdVars>>

\* The code of connect() after its gather(): the four assignments and the
\* loop over the zones, without a suspension.
ConnectInstall(t, n) ==
    LET st == Fetched("status", t, n)
        cfg == Fetched("config", t, n)
        made == ConnectZones(<<>>, 1, st, cfg)
        outcome == IF made.error = None THEN "ok" ELSE made.error
    IN  /\ status' = st
        /\ config' = cfg
        /\ energy' = Fetched("energy", t, n)
        /\ profile' = Fetched("profile", t, n)
        /\ zones' = made.zones
        /\ result' = [result EXCEPT ![t] = outcome]
        /\ tasks' = [tasks EXCEPT ![t] = Finished(t, outcome)]

\* update() after its gather() with only the status replaced.
UpdateInstallStatusOnly(t, n) ==
    LET st == Fetched("status", t, n)
        projected == ProjectZones(zones, 1, st, config)
        outcome == IF projected.error = None THEN "ok" ELSE projected.error
    IN  /\ status' = st
        /\ config' = config
        /\ energy' = energy
        /\ profile' = profile
        /\ zones' = projected.zones
        /\ result' = [result EXCEPT ![t] = outcome]
        /\ tasks' = [tasks EXCEPT ![t] = Finished(t, outcome)]

\* The code of update() after its gather(): _update_status, _update_config
\* and _update_energy (coroutines that never suspend), then the loop over
\* the zones.
UpdateInstall(t, n) ==
    LET st == Fetched("status", t, n)
        cfg == Fetched("config", t, n)
        projected == ProjectZones(zones, 1, st, cfg)
        outcome == IF projected.error = None THEN "ok" ELSE projected.error
    IN  /\ status' = st
        /\ config' = cfg
        /\ energy' = Fetched("energy", t, n)
        /\ profile' = profile
        /\ zones' = projected.zones
        /\ result' = [result EXCEPT ![t] = outcome]
        /\ tasks' = [tasks EXCEPT ![t] = Finished(t, outcome)]

\* gather() returns the results of all its fetches to the call; the status
\* body, if there is one, carries the device's local time.
GatherReturn(t) ==
    /\ tasks[t].pc = "gather"
    /\ \A e \in EndpointsOf(tasks[t].call) : tasks[t].fetch[e] \in {"ok", None}
    /\ \E n \in LifeNows :
         IF tasks[t].call = "connect" THEN ConnectInstall(t, n) ELSE UpdateInstall(t, n)
    /\ UNCHANGED <<device, refreshes>>
    /\ UNCHANGED <<schedVars, viewVars, cmdVars>>

\* gather() propagates the exception of a fetch as soon as one has raised;
\* neither call catches it.
GatherRaise(t) ==
    /\ tasks[t].pc = "gather"
    /\ \E e \in EndpointsOf(tasks[t].call) : tasks[t].fetch[e] = "raised"
    /\ result' = [result EXCEPT ![t] = "AttributeError"]
    /\ tasks' = [tasks EXCEPT ![t] = Finished(t, "AttributeError")]
    /\ UNCHANGED <<device, status, config, energy, profile, zones, refreshes>>
    /\ UNCHANGED <<schedVars, viewVars, cmdVars>>

\* What the except clause of each call makes of asyncio's TimeoutError.
TimeoutOutcome(call) == IF call = "connect" THEN "ConnectionError" ELSE "TimeoutError"

\* The timeout with the results of the fetches that did finish kept: the
\* energy snapshot is replaced when its fetch is over.
TimeoutKeepsFetched(t) ==
    /\ tasks[t].pc = "gather"
    /\ result' = [result EXCEPT ![t] = TimeoutOutcome(tasks[t].call)]
    /\ tasks' = [tasks EXCEPT ![t] = Finished(t, TimeoutOutcome(tasks[t].call))]
    /\ energy' = IF tasks[t].fetch["energy"] \in {"ok", None}
                 THEN Fetched("energy", t, NoneTime) ELSE energy
    /\ UNCHANGED <<device, status, config, profile, zones, refreshes>>
    /\ UNCHANGED <<schedVars, viewVars, cmdVars>>

\* asyncio.timeout expires while the call is suspended in gather(): the
\* fetches still running are cancelled and nothing after the gather() runs.
Timeout(t) ==
    /\ tasks[t].pc = "gather"
    /\ result' = [result EXCEPT ![t] = TimeoutOutcome(tasks[t].call)]
    /\ tasks' = [tasks EXCEPT ![t] = Finished(t, TimeoutOutcome(tasks[t].call))]
    /\ UNCHANGED <<device, status, config, energy, profile, zones, refreshes>>
    /\ UNCHANGED <<schedVars, viewVars, cmdVars>>

Init ==
    /\ zone_config = NoProgram
    /\ now = NoneTime
    /\ zone = NewZone
    /\ device \in DeviceConfigs
    /\ ClientInit
    /\ view = NoView
    /\ cmd = NoCmd
    /\ netlog = <<>>

Next ==
    \E t \in Tasks :
        \/ Connect(t)
        \/ Update(t)
        \/ SetHoldMode(t)
        \/ PostReturn(t)
        \/ GatherReturn(t)
        \/ GatherRaise(t)
        \/ Timeout(t)
        \/ \E e \in Endpoints : FetchReturn(t, e)

Spec == Init /\ [][Next]_vars

(***************************************************************************)
(* ViewSpec: a body of the device is simplified as the fetches do, and an  *)
(* accessor, the hold readers or the rounding of set_hold_mode is applied. *)
(***************************************************************************)
ViewInit ==
    /\ zone_config = NoProgram
    /\ now = NoneTime
    /\ zone = NewZone
    /\ device = <<>>
    /\ ClientInit
    /\ cmd = NoCmd
    /\ netlog = <<>>
    /\ view \in CodeViews \cup HoldViews \cup RoundViews \cup TimeViews \cup TreeViews
                  \cup DiffViews

\* _fetch_status and _fetch_config: the body is stored simplified.
FetchSimplify ==
    /\ view.kind \in {"code", "hold", "time", "tree"}
    /\ view.stage = "raw"
    /\ view' = [view EXCEPT !.stage = "simplified",
                            !.status = _simplify_json(view.status_raw),
                            !.config = _simplify_json(view.config_raw)]
    /\ UNCHANGED <<schedVars, clientVars, cmdVars>>

\* One of the code-mapped accessors is read.
ReadCode ==
    /\ view.kind = "code"
    /\ view.stage = "simplified"
    /\ view' = [view EXCEPT !.stage = "read",
                            !.member = ReadAccessor(view.accessor, view.status, view.config)]
    /\ UNCHANGED <<schedVars, clientVars, cmdVars>>

\* hold_until and hold_mode are read at the local time tnow.
ReadHold ==
    /\ view.kind = "hold"
    /\ view.stage = "simplified"
    /\ view' = [view EXCEPT !.stage = "read",
                            !.hold_until = hold_until(view.status, view.tnow).value,
                            !.hold_mode = hold_mode(view.config, view.status, view.tnow).value,
                            !.exc = hold_mode(view.config, view.status, view.tnow).exc]
    /\ UNCHANGED <<schedVars, clientVars, cmdVars>>

\* local_time is read, as connect() and update() read it for each zone.
ReadLocalTime ==
    /\ view.kind = "time"
    /\ view.stage = "simplified"
    /\ view' = [view EXCEPT !.stage = "read", !.local_time = local_time(view.status)]
    /\ UNCHANGED <<schedVars, clientVars, cmdVars>>

\* A simplified body is simplified again.
SimplifyAgain ==
    /\ view.kind = "tree"
    /\ view.stage = "simplified"
    /\ view' = [view EXCEPT !.stage = "read", !.again = _simplify_json(view.status)]
    /\ UNCHANGED <<schedVars, clientVars, cmdVars>>

\* Two snapshots are compared, as _update_status, _update_config and
\* _update_energy compare the old snapshot with the new, and the other way
\* round.
CompareSnapshots ==
    /\ view.kind = "diff"
    /\ view.stage = "raw"
    /\ view' = [view EXCEPT !.stage = "read",
                            !.changes = _compare_data(view.status_raw, view.config_raw, ""),
                            !.reverse = _compare_data(view.config_raw, view.status_raw, "")]
    /\ UNCHANGED <<schedVars, clientVars, cmdVars>>

\* set_hold_mode rounds its until time and formats it.
FormatUntil ==
    /\ view.kind = "round"
    /\ view.stage = "raw"
    /\ view' = [view EXCEPT !.stage = "read", !.until_str = ClockText(RoundUntil(view.until))]
    /\ UNCHANGED <<schedVars, clientVars, cmdVars>>

ViewNext ==
    \/ FetchSimplify \/ ReadCode \/ ReadHold \/ FormatUntil \/ ReadLocalTime
    \/ SimplifyAgain \/ CompareSnapshots
ViewSpec == ViewInit /\ [][ViewNext]_vars

(***************************************************************************)
(* CommandSpec: one zone command on a connected client, from its call to   *)
(* its return or its exception, one action per stretch between suspensions.*)
(***************************************************************************)
\* The config the device serves, and the snapshots of the connect().
CommandDevice == << ZoneEntry("1", FullWeek), ZoneEntry("2", FullWeek) >>
ConnectSnapshot(e, n) ==
    [ kind |-> "data", src |-> 1,
      localTime |-> IF e = "status" THEN n ELSE NoneTime,
      zone |-> IF e = "config" THEN CommandDevice ELSE <<>> ]

CommandInit ==
    /\ zone_config = NoProgram
    /\ now = NoneTime
    /\ zone = NewZone
    /\ view = NoView
    /\ device = CommandDevice
    /\ \E n \in LifeNows :
         /\ status = ConnectSnapshot("status", n)
         /\ zones = ConnectZones(<<>>, 1, ConnectSnapshot("status", n),
                                 ConnectSnapshot("config", n)).zones
    /\ config = ConnectSnapshot("config", NoneTime)
    /\ energy = ConnectSnapshot("energy", NoneTime)
    /\ profile = ConnectSnapshot("profile", NoneTime)
    /\ tasks = [t \in Tasks |-> Resting("idle", FALSE)]
    /\ result = [t \in Tasks |-> IF t = "poll" THEN "ok" ELSE "none"]
    /\ refreshes = 1
    /\ cmd \in Commands
    /\ netlog = <<>>

\* The call of the command, up to its first 'await self._infinitude._post'.
CallCommand ==
    /\ cmd.name # "none"
    /\ cmd.pc = "new"
    /\ LET heat == Resolve(cmd.zone.heat, cmd.temperature_heat, cmd.temperature)
           cool == Resolve(cmd.zone.cool, cmd.temperature_cool, cmd.temperature)
           step == CASE cmd.name = "set_temperature" ->
                            SetTemperatureRequest(cmd.zone, cmd.id, heat, cool)
                     [] cmd.name = "set_fan_mode" ->
                            SetFanModeRequest(cmd.zone, cmd.id, cmd.fan_mode)
                     [] cmd.name = "set_hold_mode" ->
                            HoldRequest(cmd.zone, cmd.id, cmd.mode, cmd.activity, cmd.until)
                     [] cmd.name = "set_hvac_mode" -> SetHvacModeRequest(cmd.hvac_mode)
           resolved == IF cmd.name = "set_temperature"
                       THEN [cmd EXCEPT !.heat = heat, !.cool = cool] ELSE cmd
       IN  IF step.exc # None
           THEN /\ cmd' = [resolved EXCEPT !.pc = "done", !.outcome = step.exc]
                /\ UNCHANGED netlog
           ELSE /\ cmd' = [resolved EXCEPT !.pc = CASE cmd.name = "set_hold_mode" -> "post_hold"
                                                    [] cmd.name = "set_hvac_mode" -> "post_hvac"
                                                    [] OTHER -> "post_activity"]
                /\ netlog' = Append(netlog, step.request)
    /\ UNCHANGED <<schedVars, viewVars, clientVars>>

\* The command goes on to update() without the hold POST.
ActivityPostSkipsHold ==
    /\ cmd.pc = "post_activity"
    /\ cmd' = [cmd EXCEPT !.pc = "post_hold"]
    /\ UNCHANGED netlog
    /\ UNCHANGED <<schedVars, viewVars, clientVars>>

\* The ClientError of the activity's _post ends the command.
ActivityPostAborts ==
    /\ cmd.pc = "post_activity"
    /\ \E ok \in BOOLEAN :
         LET step == HoldRequest(cmd.zone, cmd.id, "HoldMode.UNTIL", "Activity.MANUAL", NoStamp)
         IN  IF ~ok
             THEN /\ cmd' = [cmd EXCEPT !.pc = "done", !.outcome = "ClientError",
                                        !.activity_resp = _post(ok)]
                  /\ UNCHANGED netlog
             ELSE IF step.exc # None
             THEN /\ cmd' = [cmd EXCEPT !.pc = "done", !.outcome = step.exc,
                                        !.activity_resp = _post(ok)]
                  /\ UNCHANGED netlog
             ELSE /\ cmd' = [cmd EXCEPT !.pc = "post_hold", !.activity_resp = _post(ok)]
                  /\ netlog' = Append(netlog, step.request)
    /\ UNCHANGED <<schedVars, viewVars, clientVars>>

\* The _post of the activity returns the body or, its ClientError logged,
\* None; the command does not look at it, and set_temperature or
\* set_fan_mode calls set_hold_mode(UNTIL, MANUAL), which runs up to its own
\* _post.
ActivityPostReturn ==
    /\ cmd.pc = "post_activity"
    /\ \E ok \in BOOLEAN :
         LET step == HoldRequest(cmd.zone, cmd.id, "HoldMode.UNTIL", "Activity.MANUAL", NoStamp)
         IN  IF step.exc # None
             THEN /\ cmd' = [cmd EXCEPT !.pc = "done", !.outcome = step.exc,
                                        !.activity_resp = _post(ok)]
                  /\ UNCHANGED netlog
             ELSE /\ cmd' = [cmd EXCEPT !.pc = "post_hold", !.activity_resp = _post(ok)]
                  /\ netlog' = Append(netlog, step.request)
    /\ UNCHANGED <<schedVars, viewVars, clientVars>>

\* update() is called and runs up to its gather().
BeginUpdate(pc) ==
    /\ tasks' = [tasks EXCEPT !["cmd"] = Gathering("update")]
    /\ refreshes' = refreshes + 1
    /\ netlog' = Append(netlog, RefreshBegin(refreshes + 1))
    /\ cmd' = [cmd EXCEPT !.pc = pc]
    /\ UNCHANGED <<device, status, config, energy, profile, zones, result>>

\* The _post of the hold returns, and set_hold_mode calls update().
HoldPostReturn ==
    /\ cmd.pc = "post_hold"
    /\ BeginUpdate("update1")
    /\ UNCHANGED <<schedVars, viewVars>>

\* set_hvac_mode goes on into update() after its _post.
HvacPostRefreshes ==
    /\ cmd.pc = "post_hvac"
    /\ BeginUpdate("update2")
    /\ UNCHANGED <<schedVars, viewVars>>

\* The _post of set_hvac_mode returns (its ClientError is logged), and the
\* command returns.
HvacPostReturn ==
    /\ cmd.pc = "post_hvac"
    /\ cmd' = [cmd EXCEPT !.pc = "done", !.outcome = "ok"]
    /\ UNCHANGED netlog
    /\ UNCHANGED <<schedVars, viewVars, clientVars>>

\* update() is over: its exception ends the command; after the update() of
\* set_hold_mode, set_temperature and set_fan_mode call update() again; the
\* command returns.
UpdateReturn ==
    /\ cmd.pc \in {"update1", "update2"}
    /\ tasks["cmd"].pc = "idle"
    /\ IF result["cmd"] # "ok"
       THEN /\ cmd' = [cmd EXCEPT !.pc = "done", !.outcome = result["cmd"]]
            /\ UNCHANGED <<netlog, clientVars>>
       ELSE IF cmd.pc = "update1" /\ cmd.name # "set_hold_mode"
       THEN BeginUpdate("update2")
       ELSE /\ cmd' = [cmd EXCEPT !.pc = "done", !.outcome = "ok"]
            /\ UNCHANGED <<netlog, clientVars>>
    /\ UNCHANGED <<schedVars, viewVars>>

CommandNext ==
    \/ CallCommand
    \/ ActivityPostReturn
    \/ HoldPostReturn
    \/ HvacPostReturn
    \/ UpdateReturn
    \/ \E e \in Endpoints : FetchReturn("cmd", e)
    \/ GatherReturn("cmd")
    \/ GatherRaise("cmd")
    \/ Timeout("cmd")
CommandSpec == CommandInit /\ [][CommandNext]_vars

(***************************************************************************)
(* OverlapSpec: the polling coordinator's update() running while a zone    *)
(* command does, both tasks of the one event loop, on the one client.      *)
(***************************************************************************)
\* The start of a refresh by the coordinator, as the log keeps it.
PollBegin(id) == [RefreshBegin(id) EXCEPT !.kind = "poll"]

\* One call of each zone command, on a zone with setpoints, fan mode,
\* current activity and next-activity start.
OverlapCommands ==
    LET z == [ heat |-> Some(700), cool |-> Some(710), fan |-> "FanMode.HIGH",
               activity |-> "Activity.HOME", next_start |-> Stamp(0, 17, 53, 0) ]
    IN  { [NoCmd EXCEPT !.name = "set_hold_mode", !.zone = z],
          [NoCmd EXCEPT !.name = "set_temperature", !.zone = z, !.temperature = Some(720)],
          [NoCmd EXCEPT !.name = "set_fan_mode", !.zone = z, !.fan_mode = "FanMode.LOW"] }

OverlapInit ==
    /\ CommandInit
    /\ cmd \in OverlapCommands

\* The coordinator's _async_update_data calls update(), which runs up to its
\* gather(); nothing keeps it from starting, or from ending, while a
\* command is suspended in a _post or in its own update().
PollUpdate ==
    /\ tasks["poll"].pc = "idle"
    /\ refreshes < MaxRefresh
    /\ tasks' = [tasks EXCEPT !["poll"] = Gathering("update")]
    /\ refreshes' = refreshes + 1
    /\ netlog' = Append(netlog, PollBegin(refreshes + 1))
    /\ UNCHANGED <<device, status, config, energy, profile, zones, result, cmd>>
    /\ UNCHANGED <<schedVars, viewVars>>

OverlapNext ==
    \/ CallCommand
    \/ ActivityPostReturn
    \/ HoldPostReturn
    \/ UpdateReturn
    \/ PollUpdate
    \/ \E t \in Tasks :
         \/ \E e \in Endpoints : FetchReturn(t, e)
         \/ GatherReturn(t)
         \/ GatherRaise(t)
         \/ Timeout(t)
OverlapSpec == OverlapInit /\ [][OverlapNext]_vars

(***************************************************************************)
(* Properties.                                                             *)
(***************************************************************************)
\* The four derived schedule fields of a zone: all null, all set.
AllNull(z) ==
    /\ z.activity_scheduled = None /\ z.activity_scheduled_start = NoneTime
    /\ z.activity_next = None /\ z.activity_next_start = NoneTime
AllSet(z) ==
    /\ z.activity_scheduled # None /\ z.activity_scheduled_start # NoneTime
    /\ z.activity_next # None /\ z.activity_next_start # NoneTime

\* A zone config with a day entry for each of the 7 weekdays; one with an
\* enabled period; one whose periods are all there and all disabled.
AllWeekdays(zc) ==
    /\ zc.has_program
    /\ \A d \in Weekdays : \E k \in 1 .. Len(zc.program) : zc.program[k].id = d
HasEnabledPeriod(zc) ==
    \E k \in 1 .. Len(zc.program) :
        \E i \in 1 .. Len(zc.program[k].period) : zc.program[k].period[i].enabled = "on"
AllDisabled(zc) ==
    \A k \in 1 .. Len(zc.program) :
        /\ Len(zc.program[k].period) >= 2
        /\ \A i \in 1 .. Len(zc.program[k].period) : zc.program[k].period[i].enabled = "off"

\* SchedSpec: _update_activities has been called.
Called == now # NoneTime

\* The step in which the call of task t that is suspended in gather() ends.
Ends(t, call) ==
    tasks[t].pc = "gather" /\ tasks[t].call = call /\ tasks'[t].pc # "gather"
\* One of the fetches of the call of t met a transport failure.
TransportFailure(t) ==
    \E e \in EndpointsOf(tasks[t].call) : tasks[t].fetch[e] \in {None, "raised"}

\* C1: an update() that ends while one of its three fetches is still running
\* (none of them having raised) ends in TimeoutError, and the step leaves the
\* status, config and energy snapshots and every zone's derived fields as
\* they were.
C1_TimeoutReplacesNothing ==
    [][ \A t \in Tasks :
          ( /\ Ends(t, "update")
            /\ \E e \in UpdateEndpoints : tasks[t].fetch[e] = "pending"
            /\ \A e \in UpdateEndpoints : tasks[t].fetch[e] # "raised" )
          => ( /\ result'[t] = "TimeoutError"
               /\ status' = status /\ config' = config /\ energy' = energy
               /\ profile' = profile /\ zones' = zones ) ]_vars

\* An update() has timed out with a fetch still running, on a client whose
\* snapshots hold the data of an earlier refresh.
C1_Witness ==
    \E t \in Tasks :
        /\ result[t] = "TimeoutError" /\ tasks[t].cancelled
        /\ status.kind = "data" /\ config.kind = "data" /\ energy.kind = "data"
        /\ Len(zones) > 0

\* C2: right after a connect() or an update() that returns successfully,
\* every zone has its four derived schedule fields all null or all set, and
\* a zone whose week is complete and well-formed has them all set.
C2_AllOrNothing ==
    [][ \A t \in Tasks :
          ( (Ends(t, "connect") \/ Ends(t, "update")) /\ result'[t] = "ok" )
          => \A i \in 1 .. Len(zones') :
                /\ AllNull(zones'[i].fields) \/ AllSet(zones'[i].fields)
                /\ ZoneConfigOf(config', zones'[i].id) = FullWeek
                     => AllSet(zones'[i].fields) ]_vars

\* C3: on a zone config with a day entry for all 7 weekdays and at least one
\* enabled period, _update_activities returns after at most 8 day-advances,
\* whatever 'now' is, and with a next activity unless an exception ended it.
C3_WalkWithinEightDays ==
    (Called /\ AllWeekdays(zone_config) /\ HasEnabledPeriod(zone_config))
    => ( /\ zone.advances <= DaysInWeek + 1
         /\ ~zone.raised
         /\ ~zone.exc => zone.activity_next # None )

\* A call that needed all 8 day-advances: the only enabled periods of the
\* week are on today's weekday and already past.
C3_Witness ==
    /\ Called /\ AllWeekdays(zone_config) /\ HasEnabledPeriod(zone_config)
    /\ zone.advances = DaysInWeek + 1
    /\ ~zone.exc /\ zone.activity_next # None
    /\ Weekday(zone.activity_next_start) = Weekday(now)

\* C4: the day-walk is bounded whatever the data: on a week in which every
\* period is disabled, _update_activities makes no more than 8 day-advances.
C4_WalkBoundedOnAllDisabled ==
    (Called /\ AllWeekdays(zone_config) /\ AllDisabled(zone_config))
    => zone.advances <= DaysInWeek + 1

\* C5: no connect() and no update() ends with an exception raised out of
\* _update_activities by a structural error of a zone's schedule.
C5_ScheduleErrorNeverPropagates ==
    \A t \in Tasks : result[t] # "UnboundLocalError"

\* C6: when _update_activities has met a structural error, the four derived
\* schedule fields are all null afterwards.
C6_ErrorResetsAllFields ==
    (Called /\ zone.exc) => AllNull(zone)

\* C7: an update() in which a fetch met a transport failure, and which the
\* timeout did not end, returns without raising.
C7_UpdateSurvivesTransportFailure ==
    [][ \A t \in Tasks :
          ( Ends(t, "update") /\ TransportFailure(t) /\ result'[t] # "TimeoutError" )
          => result'[t] = "ok" ]_vars

\* C8: a connect() in which a fetch met a transport failure raises
\* ConnectionError, the error it raises on timeout.
C8_ConnectRaisesConnectionError ==
    [][ \A t \in Tasks :
          ( Ends(t, "connect") /\ TransportFailure(t) )
          => result'[t] = "ConnectionError" ]_vars

\* C9: each of the four snapshots is a mapping in every state; none is None.
C9_SnapshotsAreMappings ==
    /\ status.kind # None
    /\ config.kind # None
    /\ energy.kind # None
    /\ profile.kind # None

\* C10: in every state (each is a point where another task can run) the
\* status, config and energy snapshots were fetched by the same refresh call.
C10_SnapshotsOfOneRefresh ==
    status.src = config.src /\ config.src = energy.src

\* The snapshots are those of a later refresh while an earlier update(), of
\* the other task, is still suspended in its gather().
C10_Witness ==
    /\ C10_SnapshotsOfOneRefresh
    /\ \E t \in Tasks :
        /\ tasks[t].pc = "gather" /\ tasks[t].call = "update"
        /\ status.src > tasks[t].id /\ status.src >= 2

(***************************************************************************)
(* Properties of the readers (ViewSpec).                                   *)
(***************************************************************************)
\* The text "HH:MM" read back as a minute of the day.
MinuteOfText(text) == ParseInt(SubSeq(text, 1, 2)) * 60 + ParseInt(SubSeq(text, 4, 5))
MinuteOfDay(st) == st.hh * 60 + st.mm
\* The distance of two minutes of the day, around midnight too.
ClockDistance(a, b) ==
    LET d == IF a < b THEN b - a ELSE a - b
    IN  IF d < 24 * 60 - d THEN d ELSE 24 * 60 - d
QuarterMarks == { 15 * k : k \in 0 .. 95 }
Rounded == view.kind = "round" /\ view.stage = "read"

\* C16: for every until time of the day, the until string of set_hold_mode
\* is a text HH:MM whose minute is 00, 15, 30 or 45, that is at most 7
\* minutes from the input and no further from it than any other quarter
\* mark; an input minute that rounds up to 60 gives minute 00 of the next
\* hour, 23:53 giving 00:00.
C16_UntilRoundsToNearestQuarter ==
    Rounded =>
        LET text == view.until_str
            out == MinuteOfText(text)
            inp == MinuteOfDay(view.until)
        IN  /\ Len(text) = 5 /\ SubSeq(text, 3, 3) = ":"
            /\ ParseInt(SubSeq(text, 1, 2)) \in 0 .. 23
            /\ ParseInt(SubSeq(text, 4, 5)) \in {0, 15, 30, 45}
            /\ ClockDistance(out, inp) <= 7
            /\ \A q \in QuarterMarks : ClockDistance(out, inp) <= ClockDistance(q, inp)
            /\ view.until.mm > 52 =>
                 /\ ParseInt(SubSeq(text, 1, 2)) = (view.until.hh + 1) % 24
                 /\ ParseInt(SubSeq(text, 4, 5)) = 0
            /\ view.until.mm <= 52 => ParseInt(SubSeq(text, 1, 2)) = view.until.hh
C16_Witness ==
    Rounded /\ view.until = Stamp(0, 23, 53, 0) /\ view.until_str = "00:00"

HoldRead == view.kind = "hold" /\ view.stage = "read"
OtmrOf(v) == DictGet(v.status, "otmr")
TimeOfDayBefore(a, b) == StampBefore([a EXCEPT !.day = 0], [b EXCEPT !.day = 0])

\* C17: for every otmr text HH:MM and every local time now, hold_until is a
\* time with that time of day, not before now and less than 24 hours after
\* it: today when that time of day is not before now, tomorrow otherwise.
C17_HoldUntilIsNextOccurrence ==
    (HoldRead /\ OtmrOf(view).t = "str") =>
        /\ view.hold_until # NoStamp
        /\ ClockText(view.hold_until) = OtmrOf(view).v
        /\ view.hold_until.ss = 0
        /\ ~StampBefore(view.hold_until, view.tnow)
        /\ StampBefore(view.hold_until, [view.tnow EXCEPT !.day = @ + 1])
        /\ view.hold_until.day =
             IF TimeOfDayBefore(view.hold_until, view.tnow)
             THEN view.tnow.day + 1 ELSE view.tnow.day
C17_Witness ==
    /\ HoldRead
    /\ OtmrOf(view).t = "str" /\ OtmrOf(view).v = "14:30"
    /\ view.tnow = Stamp(0, 14, 30, 20)
    /\ view.hold_until = Stamp(1, 14, 30, 0)

HoldIsOn(v) == DictGet(v.config, "hold").t = "str" /\ DictGet(v.config, "hold").v = "on"

\* C18: hold_mode never raises and is OFF whenever the hold state is not
\* on (off, absent, unknown), whatever the until time; INDEFINITE when the
\* hold state is on and there is no until time; UNTIL when the hold state is
\* on and there is an until time.
C18_HoldModeTruthTable ==
    HoldRead =>
        /\ view.exc = None
        /\ view.hold_mode =
             IF ~HoldIsOn(view) THEN "HoldMode.OFF"
             ELSE IF OtmrOf(view).t = "str" THEN "HoldMode.UNTIL"
             ELSE "HoldMode.INDEFINITE"
C18_Witness ==
    /\ HoldRead
    /\ ~HoldIsOn(view)
    /\ OtmrOf(view).t = "str"
    /\ view.hold_mode = "HoldMode.OFF"

FanList(code) == JDict("fan" :> JList(<<JStr(code)>>))
FanRead(code) ==
    /\ view.kind = "code" /\ view.stage = "read" /\ view.accessor = "fan_mode"
    /\ view.status_raw = FanList(code)
FanText(code) ==
    DictGet(view.status, "fan").t = "str" /\ DictGet(view.status, "fan").v = code

\* C19 as stated: the fan field ["auto"] is stored as "auto" and fan_mode
\* then yields FanMode.AUTO.
C19_AutoYieldsFanModeAuto ==
    FanRead("auto") => (FanText("auto") /\ view.member = "FanMode.AUTO")

\* C19, amended: the fan field ["auto"] is stored as "auto" and fan_mode
\* then yields None, no FanMode having the code "auto"; the code of
\* FanMode.AUTO is "off", and the fan field ["off"] is stored as "off" and
\* yields FanMode.AUTO.
C19_AutoIsNoFanCode ==
    /\ FanRead("auto") => (FanText("auto") /\ view.member = None)
    /\ FanRead("off") => (FanText("off") /\ view.member = "FanMode.AUTO")
C19_Witness == FanRead("auto") /\ FanText("auto") /\ view.member = None

\* The enumeration of each accessor, as C20 lists them.
EnumOf(a) ==
    CASE a = "temperature_unit" -> TemperatureUnit
      [] a = "hvac_mode" -> HVACMode
      [] a = "humidifier_state" -> HumidifierState
      [] a = "fan_mode" -> FanMode
      [] a = "hvac_action" -> HVACAction
      [] a = "hold_state" -> HoldState
      [] a = "hold_activity" -> Activity
      [] a = "activity_current" -> Activity
      [] a = "occupancy" -> Occupancy
CodeRead == view.kind = "code" /\ view.stage = "read"
RawOf(v) == DictGet(IF ReadsConfig(v.accessor) THEN v.config ELSE v.status, KeyOf(v.accessor))

\* C20: every code-mapped accessor yields, for a value that is a code of its
\* enumeration, the member with that code, and None for every other value:
\* a missing key, a falsy value, an unknown code, a value that is no text.
C20_CodeMappedAccessors ==
    CodeRead =>
        LET val == RawOf(view)
            enum == EnumOf(view.accessor)
        IN  IF val.t = "str" /\ val.v \in CodesOf(enum)
            THEN \E k \in 1 .. Len(enum) :
                    enum[k].value = val.v /\ view.member = enum[k].name
            ELSE view.member = None
C20_Witness ==
    /\ CodeRead
    /\ view.accessor = "activity_current"
    /\ RawOf(view).t = "str" /\ RawOf(view).v = "vacation2"
    /\ view.member = None

(***************************************************************************)
(* Properties of the zone commands (CommandSpec).                          *)
(***************************************************************************)
Started(name) == cmd.name = name /\ cmd.pc # "new"
SnapshotsOfConnect ==
    /\ status = ConnectSnapshot("status", status.localTime)
    /\ config = ConnectSnapshot("config", NoneTime)
    /\ energy = ConnectSnapshot("energy", NoneTime)
    /\ profile = ConnectSnapshot("profile", NoneTime)

\* C11: a set_temperature whose resolved heating setpoint is greater than
\* its resolved cooling setpoint has raised ValueError with no request sent
\* and no refresh begun, and the snapshots are those of before the call.
C11_RejectedBeforeAnyRequest ==
    ( Started("set_temperature") /\ cmd.heat.some /\ cmd.cool.some
      /\ cmd.heat.v > cmd.cool.v )
    => /\ cmd.pc = "done" /\ cmd.outcome = "ValueError"
       /\ netlog = <<>>
       /\ refreshes = 1 /\ tasks["cmd"].pc = "idle"
       /\ SnapshotsOfConnect
C11_Witness ==
    /\ Started("set_temperature")
    /\ cmd.outcome = "ValueError"
    /\ cmd.heat.v > cmd.cool.v
    /\ netlog = <<>>

\* The requests of set_temperature and set_fan_mode as C12 states them.
ManualActivityPost ==
    Post("/api/" \o cmd.id \o "/activity/manual",
         IF cmd.name = "set_temperature"
         THEN ("htsp" :> OneDecimal(cmd.heat.v)) @@ ("clsp" :> OneDecimal(cmd.cool.v))
                  @@ ("fan" :> ValueOf(FanMode, cmd.zone.fan))
         ELSE ("htsp" :> OneDecimal(cmd.zone.heat.v)) @@ ("clsp" :> OneDecimal(cmd.zone.cool.v))
                  @@ ("fan" :> ValueOf(FanMode, cmd.fan_mode)))
IsHoldPost(ev, hold, activity) ==
    /\ ev.kind = "POST"
    /\ ev.endpoint = "/api/" \o cmd.id \o "/hold"
    /\ DOMAIN ev.data = {"hold", "activity", "until"}
    /\ ev.data["hold"] = hold
    /\ ev.data["activity"] = activity
\* text is the quarter-hour mark nearest to the time of day of until.
IsRounded(text, until) ==
    /\ MinuteOfText(text) \in QuarterMarks
    /\ ClockDistance(MinuteOfText(text), MinuteOfDay(until)) <= 7

\* C12: of set_temperature and set_fan_mode, the first entry of the log is
\* the POST of the manual activity (the new setpoints with the zone's
\* current fan code, or the new fan code with the zone's current setpoints),
\* the second the hold POST for (UNTIL, MANUAL), and every later one the
\* start of a refresh; a command that has returned has a refresh in its log
\* after the hold POST whose snapshots are installed.
C12_ActivityThenHoldThenRefresh ==
    ( cmd.name \in {"set_temperature", "set_fan_mode"} )
    => /\ Len(netlog) >= 1 => netlog[1] = ManualActivityPost
       /\ Len(netlog) >= 2 =>
            /\ IsHoldPost(netlog[2], "on", "manual")
            /\ IsRounded(netlog[2].data["until"], cmd.zone.next_start)
       /\ \A i \in 3 .. Len(netlog) : netlog[i].kind = "refresh"
       /\ cmd.pc \in {"update1", "update2"} => Len(netlog) >= 3
       /\ cmd.outcome = "ok" =>
            /\ Len(netlog) >= 3
            /\ status.src >= netlog[3].id /\ netlog[3].id > 1
            /\ tasks["cmd"].pc = "idle"
C12_Witness ==
    /\ cmd.name = "set_fan_mode"
    /\ cmd.outcome = "ok"
    /\ Len(netlog) >= 3
    /\ netlog[1] = ManualActivityPost
    /\ status.src >= netlog[3].id

\* The resolution of a setpoint with an argument given whenever it is not
\* None, the value 0 included.
ResolvedAsStated(current, own, temperature) ==
    IF own.some THEN own
    ELSE IF temperature.some THEN temperature
    ELSE current

\* C13: set_temperature resolves heat to temperature_heat when given, else
\* to temperature when given, else to the current heat setpoint, and cool
\* likewise from temperature_cool; an argument is given whenever a value is
\* passed, 0 included.
C13_ZeroCountsAsGiven ==
    Started("set_temperature")
    => /\ cmd.heat = ResolvedAsStated(cmd.zone.heat, cmd.temperature_heat, cmd.temperature)
       /\ cmd.cool = ResolvedAsStated(cmd.zone.cool, cmd.temperature_cool, cmd.temperature)

\* The mode, activity and until time of a set_hold_mode after its defaults.
HoldModeOf(c) == IF c.mode = None THEN "HoldMode.UNTIL" ELSE c.mode
HoldActivityOf(c) == IF c.activity = None THEN c.zone.activity ELSE c.activity
HoldUntilOf(c) == IF c.until = NoStamp THEN c.zone.next_start ELSE c.until
HoldOffPost(ev) == IsHoldPost(ev, "off", "") /\ ev.data["until"] = ""

\* C14: the one POST of a set_hold_mode goes to the hold endpoint of the
\* zone with the payload of the mode: for OFF hold off, activity and until
\* empty; for INDEFINITE hold on, the code of the activity and 'forever';
\* for UNTIL hold on, the code of the activity and the rounded until time;
\* the mode defaults to UNTIL, the activity to the zone's current activity
\* and the until time to the zone's next-activity start.  Nothing else in
\* the log is a POST, and a call that has returned has sent it.
C14_HoldPayloadOfMode ==
    cmd.name = "set_hold_mode"
    => /\ \A i \in 2 .. Len(netlog) : netlog[i].kind = "refresh"
       /\ cmd.outcome = "ok" => Len(netlog) >= 1
       /\ Len(netlog) >= 1 =>
            CASE HoldModeOf(cmd) = "HoldMode.OFF" -> HoldOffPost(netlog[1])
              [] HoldModeOf(cmd) = "HoldMode.INDEFINITE" ->
                   /\ HoldActivityOf(cmd) # None
                   /\ IsHoldPost(netlog[1], "on", ValueOf(Activity, HoldActivityOf(cmd)))
                   /\ netlog[1].data["until"] = "forever"
              [] HoldModeOf(cmd) = "HoldMode.UNTIL" ->
                   /\ HoldActivityOf(cmd) # None
                   /\ IsHoldPost(netlog[1], "on", ValueOf(Activity, HoldActivityOf(cmd)))
                   /\ IsRounded(netlog[1].data["until"], HoldUntilOf(cmd))
C14_Witness ==
    /\ cmd.name = "set_hold_mode"
    /\ cmd.mode = None /\ cmd.activity = None /\ cmd.until = NoStamp
    /\ cmd.outcome = "ok"
    /\ IsHoldPost(netlog[1], "on", "home")
    /\ netlog[1].data["until"] = "18:00"

\* C15: a set_hold_mode(OFF) without an until argument has sent the hold-off
\* POST once it is past its call, whatever the zone's next-activity start,
\* and its refresh has begun when it returns.
C15_HoldOffNeverFailsBeforePost ==
    ( Started("set_hold_mode") /\ cmd.mode = "HoldMode.OFF" /\ cmd.until = NoStamp )
    => /\ Len(netlog) >= 1
       /\ HoldOffPost(netlog[1])
       /\ cmd.outcome = "ok" => Len(netlog) >= 2

(***************************************************************************)
(* Properties of the local time (ViewSpec).                                *)
(***************************************************************************)
TimeRead == view.kind = "time" /\ view.stage = "read"
LocalTimeOf(v) == DictGet(v.status, "localTime")
HasOffset(v) == LocalTimeOf(v).t = "str" /\ LocalTimeMatch(LocalTimeOf(v).v) = 2

\* C21: local_time never raises, and on a status whose localTime is null or
\* is no text of the expected format it gives the host's current time with a
\* time zone.
C21_LocalTimeNeverRaises ==
    TimeRead =>
        /\ view.local_time.exc = None
        /\ ( LocalTimeOf(view).t # "str" \/ LocalTimeMatch(LocalTimeOf(view).v) = 0 )
           => ( view.local_time.source = "host" /\ view.local_time.tz.kind # "none" )

\* C22: on a localTime with the offset suffix sHH:MM, local_timezone is the
\* fixed offset of s(60*HH + MM) minutes: -05:30 is -330 minutes and +05:30
\* is +330 minutes.
C22_SignAppliesToHoursAndMinutes ==
    ( TimeRead /\ HasOffset(view) /\ view.local_time.tz.exc = None )
    => /\ view.local_time.tz.kind = "fixed"
       /\ view.local_time.tz.minutes = OffsetSignsBoth(SubSeq(LocalTimeOf(view).v, 20, 25))

(***************************************************************************)
(* Properties of the zones of connect() (Spec).                            *)
(***************************************************************************)
\* connect() comes back from a gather() whose four fetches all gave a body.
ConnectAfterHealthyFetches ==
    /\ tasks["poll"].pc = "gather" /\ tasks["poll"].call = "connect"
    /\ \A e \in ConnectEndpoints : tasks["poll"].fetch[e] = "ok"
    /\ tasks'["poll"].pc # "gather"
    /\ result'["poll"] # "ConnectionError"
WeeklyProgrammed(dev) ==
    \A k \in 1 .. Len(dev) : dev[k].has_program /\ dev[k].program = FullWeek.program

\* C23: a connect() that fetched a config with one zone or more, each with a
\* weekly program, succeeds and leaves one zone per entry of the zone list,
\* under the entry's id, projected once; a single zone included.
C23_OneZonePerEntry ==
    [][ ( ConnectAfterHealthyFetches /\ Len(device) >= 1 /\ WeeklyProgrammed(device) )
        => /\ result'["poll"] = "ok"
           /\ Len(zones') = Len(device)
           /\ \A k \in 1 .. Len(device) :
                /\ zones'[k].id = device[k].id
                /\ zones'[k].fields =
                     UpdateActivities(ZoneConfigOf(config', device[k].id),
                                      status'.localTime, NewZone) ]_vars

(***************************************************************************)
(* Properties of set_hvac_mode and of the failed activity write            *)
(* (CommandSpec).                                                          *)
(***************************************************************************)
\* C24: set_hvac_mode sends one POST of the mode's code to /api/config and
\* nothing else: no refresh begins, and the snapshots and the zones are
\* those of before the call, so that the readers of the config snapshot,
\* hvac_mode among them, read what they read before.
C24_HvacModePostsAndNothingElse ==
    Started("set_hvac_mode")
    => /\ netlog = << Post("/api/config", "mode" :> ValueOf(HVACMode, cmd.hvac_mode)) >>
       /\ refreshes = 1 /\ tasks["cmd"].pc = "idle"
       /\ SnapshotsOfConnect
       /\ zones = ConnectZones(<<>>, 1, status, config).zones
       /\ cmd.outcome \in {"none", "ok"}
C24_Witness ==
    /\ cmd.name = "set_hvac_mode" /\ cmd.hvac_mode = "HVACMode.FAN_ONLY"
    /\ cmd.pc = "done" /\ cmd.outcome = "ok"
    /\ netlog[1].data["mode"] = "fanonly"

\* C30: after a transport failure of the manual-activity write of
\* set_temperature or set_fan_mode the command goes on as after a success:
\* no exception of the transport ends it, the hold POST for (UNTIL, MANUAL)
\* is the next request whenever set_hold_mode gets as far as its POST, the
\* refreshes follow, and the command returns unless a refresh raises.
ActivityWriteFailed ==
    cmd.name \in {"set_temperature", "set_fan_mode"} /\ cmd.activity_resp = None
C30_FailedActivityWriteDoesNotAbort ==
    ActivityWriteFailed
    => /\ cmd.outcome \in {"none", "ok", "AttributeError", "TimeoutError", "UnboundLocalError"}
       /\ cmd.zone.next_start # NoStamp
          => /\ Len(netlog) >= 2
             /\ IsHoldPost(netlog[2], "on", "manual")
             /\ cmd.pc # "post_hold" => ( Len(netlog) >= 3 /\ netlog[3].kind = "refresh" )
             /\ cmd.outcome \notin {"none", "ok"}
                => ( Len(netlog) >= 3 /\ result["cmd"] = cmd.outcome )
             /\ cmd.outcome = "ok"
                => ( Len(netlog) = 4 /\ netlog[4].kind = "refresh" /\ status.src = netlog[4].id )
C30_Witness ==
    /\ ActivityWriteFailed
    /\ cmd.pc = "done" /\ cmd.outcome = "ok"
    /\ Len(netlog) = 4

(***************************************************************************)
(* Properties of the scheduled and the next activity (SchedSpec).          *)
(***************************************************************************)
\* A well-formed table: an entry for every weekday, no period with a
\* structural error, and no day of a single period (which the fetch would
\* have collapsed); time-ordered: the times of a day do not decrease.
WellFormed(zc) ==
    /\ AllWeekdays(zc)
    /\ \A k \in 1 .. Len(zc.program) :
         /\ Len(zc.program[k].period) # 1
         /\ \A i \in 1 .. Len(zc.program[k].period) : zc.program[k].period[i] \in GoodPeriods
TimeOrdered(zc) ==
    \A k \in 1 .. Len(zc.program) :
        \A i, j \in 1 .. Len(zc.program[k].period) :
            i < j => zc.program[k].period[i].time <= zc.program[k].period[j].time
\* The enabled periods of the entry of a weekday.
EnabledOn(zc, wd) ==
    LET entry == zc.program[CHOOSE k \in 1 .. Len(zc.program) : zc.program[k].id = wd]
    IN  { entry.period[i] : i \in { j \in 1 .. Len(entry.period) : entry.period[j].enabled = "on" } }

\* C25: on a well-formed, time-ordered table the scheduled activity and its
\* start are those of the latest enabled period of today's weekday at or
\* before 'now', a period at 'now' itself included, and there is no
\* scheduled activity when today has no such period.
C25_ScheduledIsLatestAtOrBeforeNow ==
    ( Called /\ WellFormed(zone_config) /\ TimeOrdered(zone_config)
      /\ HasEnabledPeriod(zone_config) )
    => LET past == { p \in EnabledOn(zone_config, Weekday(now)) : p.time <= now.tod }
           latest == CHOOSE p \in past : \A q \in past : q.time <= p.time
       IN  IF past = {}
           THEN zone.activity_scheduled = None /\ zone.activity_scheduled_start = NoneTime
           ELSE /\ zone.activity_scheduled = latest.activity
                /\ zone.activity_scheduled_start = DateTime(now.day, latest.time)

TreeRead == view.kind = "tree" /\ view.stage = "read"
\* No list of a single item anywhere in a tree.
RECURSIVE NoSingleItemList(_)
NoSingleItemList(x) ==
    IF x.t = "list" THEN Len(x.v) # 1 /\ \A k \in 1 .. Len(x.v) : NoSingleItemList(x.v[k])
    ELSE IF x.t = "dict" THEN \A key \in DOMAIN x.v : NoSingleItemList(x.v[key])
    ELSE TRUE
\* A tree without the single-item lists that wrap it.
RECURSIVE Unwrapped(_)
Unwrapped(x) == IF x.t = "list" /\ Len(x.v) = 1 THEN Unwrapped(x.v[1]) ELSE x
\* y has the shape of x but for the wrappers: the same scalars, the same
\* keys, and lists of the same length with their items in the same order.
RECURSIVE Preserved(_, _)
Preserved(x, y) ==
    LET core == Unwrapped(x)
    IN  /\ core.t = y.t
        /\ IF core.t = "list"
           THEN /\ Len(core.v) = Len(y.v)
                /\ \A k \in 1 .. Len(y.v) : Preserved(core.v[k], y.v[k])
           ELSE IF core.t = "dict"
           THEN /\ DOMAIN core.v = DOMAIN y.v
                /\ \A key \in DOMAIN y.v : Preserved(core.v[key], y.v[key])
           ELSE core.v = y.v

\* C27: _simplify_json is idempotent, its result holds no list of a single
\* item, and every list of the result has the length and the order of the
\* list of the input it comes from.
C27_SimplifyIdempotentAndPreserving ==
    TreeRead
    => /\ JEq(view.again, view.status)
       /\ NoSingleItemList(view.status)
       /\ Preserved(view.status_raw, view.status)
\* A list of a list of one item and a list of two: the wrapper of the one
\* goes, the two lists of two stay as they are.
C27_Witness ==
    /\ TreeRead
    /\ JEq(view.status_raw,
           JList(<<JList(<<JStr("a")>>), JList(<<JNum(1), JStr("a")>>)>>))
    /\ JEq(view.status, JList(<<JStr("a"), JList(<<JNum(1), JStr("a")>>)>>))

DiffRead == view.kind = "diff" /\ view.stage = "read"
\* The paths a result of _compare_data reports.
Paths(r) == IF r.none THEN {} ELSE DOMAIN r.diff
\* The indexed paths two lists under a key must give: of every item one side
\* lacks, and of every pair of items that differ and are not two mappings.
IndexedPaths(key, olist, nlist) ==
    { key \o "[" \o DecimalText(i) \o "]" :
        i \in { j \in 0 .. (Len(olist) + Len(nlist)) :
                  \/ j < Len(olist) /\ j >= Len(nlist)
                  \/ j >= Len(olist) /\ j < Len(nlist)
                  \/ /\ j < Len(olist) /\ j < Len(nlist)
                     /\ ~(olist[j + 1].t = "dict" /\ nlist[j + 1].t = "dict")
                     /\ ~JEq(olist[j + 1], nlist[j + 1]) } }

\* C28: _compare_data of a snapshot with itself reports nothing, and of two
\* snapshots it reports the same paths in either order, the indexed paths of
\* the list items that differ or that one side lacks among them.
C28_DiffSymmetricInPaths ==
    DiffRead
    => /\ Paths(view.changes) = Paths(view.reverse)
       /\ JEq(view.status_raw, view.config_raw) => Paths(view.changes) = {}
       /\ ( view.status_raw.t = "dict" /\ view.config_raw.t = "dict" )
          => \A key \in DOMAIN view.status_raw.v \cap DOMAIN view.config_raw.v :
               ( view.status_raw.v[key].t = "list" /\ view.config_raw.v[key].t = "list" )
               => IndexedPaths(key, view.status_raw.v[key].v, view.config_raw.v[key].v)
                    \subseteq Paths(view.changes)
\* A list of two against a list of three with mappings that differ: a path
\* into the first item and the path of the third.
C28_Witness ==
    /\ DiffRead
    /\ Paths(view.changes) = {"a[0]/k", "a[2]", "b"}
    /\ view.changes.diff["a[2]"][1].v = "Missing in old list"
    /\ view.reverse.diff["a[2]"][2].v = "Missing in new list"

(***************************************************************************)
(* Properties of the overlap of poll and command (OverlapSpec).            *)
(***************************************************************************)
\* The refresh that fetched a snapshot began after every POST of the log.
FetchedAfterThePosts(snapshot) ==
    \E i \in 1 .. Len(netlog) :
        /\ netlog[i].kind \in {"refresh", "poll"}
        /\ netlog[i].id = snapshot.src
        /\ \A j \in 1 .. Len(netlog) : netlog[j].kind = "POST" => j < i

\* C29: once a zone command has returned, the status, config and energy
\* snapshots are those of a refresh that began after the command's POSTs,
\* whatever update() of the coordinator overlapped the command.
C29_NoStaleSnapshotAfterCommand ==
    ( cmd.pc = "done" /\ cmd.outcome = "ok" )
    => /\ FetchedAfterThePosts(status)
       /\ FetchedAfterThePosts(config)
       /\ FetchedAfterThePosts(energy)

====
